---- MODULE Spec2Model ----
(***************************************************************************)
(* Focus watcher of the active-app-context subsystem                       *)
(* (app/src-tauri/src/active_app_context).                                  *)
(*                                                                         *)
(* Spec      the polling loop of start_focus_watcher, with its constants.   *)
(* SpecPoll  process_focus_snapshot_poll driven poll by poll, with the      *)
(*           debounce window and the instants drawn from small sets.        *)
(* SpecProj  ComparableActiveAppContext::from on pairs of snapshots.        *)
(* SpecCapture  get_current_active_app_context of the three platforms.      *)
(* SpecShared   the pure functions of shared.rs on inputs from small sets.  *)
(* SpecMute     the AudioMuteManager over a controller whose calls can fail.*)
(* SpecHistory  the HistoryStorage over its JSON file.                      *)
(* SpecShortcut handle_shortcut_event on any sequence of hotkey events.     *)
(*                                                                         *)
(* An Option<T> is a sequence of length at most one: None is <<>> and       *)
(* Some(x) is <<x>>.  An Instant is a number of milliseconds.               *)
(***************************************************************************)
EXTENDS Integers, Sequences, FiniteSets, TLC

VARIABLES
    focus_watcher_state,  \* start_focus_watcher: focus_watcher_state
    should_stop,          \* FocusWatcherHandle.should_stop
    pc,                   \* position of the watcher thread in its loop
    now,                  \* the monotonic clock read by Instant::now()
    debounce_window,      \* the debounce_window handed to every poll
    emission_candidate,   \* watcher_poll_result.emission_candidate of this tick
    ticks,                \* loop iterations started so far
    stop_checks,          \* history: loads of should_stop by the loop condition
    polls,                \* history: the polls processed, in order
    emitted,              \* history: the events delivered to subscribers
    left_snapshot,        \* SpecProj: the two snapshots projected
    right_snapshot,
    left_context,         \* SpecProj: their projections, once computed
    right_context,
    main_thread_queue,    \* closures handed to run_on_main_thread, not yet run
    snapshot_channels,    \* the sync_channel(1) of every dispatched request
    watcher_receiver,     \* the request the watcher thread is receiving from
    query_receiver,       \* the request the on-demand query is receiving from
    query_pc,             \* position of active_app_get_current_context
    query_result,         \* what active_app_get_current_context returned last
    query_outcome,        \* history: how that result came about
    focus_watcher_handle, \* AppState.focus_watcher: the stored handle, if any
    watchers,             \* every watcher thread started, in order of start
    toggles,              \* history: calls of sync_focus_watcher_enabled so far
    last_toggle,          \* history: the argument of the last of them
    thread_events,        \* history: the events delivered, with their emitter
    platform,             \* SpecCapture: the target_os of the build
    os_focus,             \* SpecCapture: what the system reports at the capture
    captured_snapshot,    \* SpecCapture: the snapshot returned by the capture
    url_input,            \* SpecShared: the raw document URL handed over
    origin_result,        \* SpecShared: what normalize_browser_document_origin returned
    title_input,          \* SpecShared: the window title handed over, if any
    browser_input,        \* SpecShared: the browser's display name handed over
    tab_title_result,     \* SpecShared: what the tab title inference returned
    presence_input,       \* SpecShared: which fields the capture populated
    confidence_result,    \* SpecShared: what determine_focus_confidence_level returned
    mute_state,           \* AudioMuteManager.state
    audio_is_muted,       \* the system audio behind the controller
    set_muted_calls,      \* history: the set_muted calls issued, in order
    mute_operations,      \* history: the calls made on the manager, in order
    manager_dropped,      \* the AudioMuteManager has been dropped
    history_entries,      \* HistoryStorage.data.entries, newest first
    history_file,         \* the content of history.json, if the file exists
    history_result,       \* what the last call on the storage returned
    history_operation,    \* history: the last call on the storage
    history_calls,        \* calls made on the storage so far
    shortcut_state,       \* AppState.shortcut_state
    shortcut_emitted,     \* history: the events emitted by the handler, in order
    last_shortcut,        \* history: the last shortcut event handled
    shortcut_events       \* shortcut events delivered so far

vars == <<focus_watcher_state, should_stop, pc, now, debounce_window,
          emission_candidate, ticks, stop_checks, polls, emitted,
          left_snapshot, right_snapshot, left_context, right_context,
          main_thread_queue, snapshot_channels, watcher_receiver,
          query_receiver, query_pc, query_result, query_outcome,
          focus_watcher_handle, watchers, toggles, last_toggle, thread_events,
          platform, os_focus, captured_snapshot,
          url_input, origin_result, title_input, browser_input,
          tab_title_result, presence_input, confidence_result,
          mute_state, audio_is_muted, set_muted_calls, mute_operations,
          manager_dropped,
          history_entries, history_file, history_result, history_operation,
          history_calls,
          shortcut_state, shortcut_emitted, last_shortcut, shortcut_events>>

watcher_vars == <<focus_watcher_state, should_stop, pc, now, debounce_window,
                  emission_candidate, ticks, stop_checks, polls, emitted>>

proj_vars == <<left_snapshot, right_snapshot, left_context, right_context>>

marshal_vars == <<main_thread_queue, snapshot_channels, watcher_receiver,
                  query_receiver, query_pc, query_result, query_outcome>>

lifecycle_vars == <<focus_watcher_handle, watchers, toggles, last_toggle,
                    thread_events>>

capture_vars == <<platform, os_focus, captured_snapshot>>

shared_vars == <<url_input, origin_result, title_input, browser_input,
                 tab_title_result, presence_input, confidence_result>>

mute_vars == <<mute_state, audio_is_muted, set_muted_calls, mute_operations,
               manager_dropped>>

history_vars == <<history_entries, history_file, history_result,
                  history_operation, history_calls>>

shortcut_vars == <<shortcut_state, shortcut_emitted, last_shortcut, shortcut_events>>

\* Everything outside the watcher loop
outer_vars == <<proj_vars, marshal_vars, lifecycle_vars, capture_vars, shared_vars, mute_vars, history_vars, shortcut_vars>>

-----------------------------------------------------------------------------
(* Bounds *)

MaxTicks == 6
MaxPolls == 4
MaxStep == 2
MaxRequests == 3
MaxToggles == 3
MaxThreadTicks == 3

(* Program constants *)

PollIntervalMs == 250
DebounceWindowMs == 75
CaptureTimeoutMs == 150

-----------------------------------------------------------------------------
(* Option<T> *)

None == <<>>

Some(x) == <<x>>

IsSome(o) == o # <<>>

Unwrap(o) == o[1]

-----------------------------------------------------------------------------
(* Snapshot model (active_app_context/mod.rs) *)

FocusEventSource == {"Polling", "Accessibility", "Uia", "Unknown"}

FocusConfidenceLevel == {"High", "Medium", "Low"}

FocusedApplication(display_name, bundle_id, process_path) ==
    [display_name |-> display_name, bundle_id |-> bundle_id,
     process_path |-> process_path]

FocusedWindow(title) == [title |-> title]

FocusedBrowserTab(title, origin, browser) ==
    [title |-> title, origin |-> origin, browser |-> browser]

ActiveAppContextSnapshot(application, window, tab, source, confidence, captured) ==
    [focused_application |-> application, focused_window |-> window,
     focused_browser_tab |-> tab, event_source |-> source,
     confidence_level |-> confidence, captured_at |-> captured]

-----------------------------------------------------------------------------
(* Comparable projection (watcher.rs) *)

\* focused_application.as_ref().map(|application| application.display_name.clone())
ApplicationDisplayName(focused_application) ==
    IF focused_application = None THEN None
    ELSE Some(Unwrap(focused_application).display_name)

\* focused_window.as_ref().map(|window| window.title.clone())
WindowTitle(focused_window) ==
    IF focused_window = None THEN None
    ELSE Some(Unwrap(focused_window).title)

\* focused_browser_tab.as_ref().and_then(|browser_tab| browser_tab.title.clone())
BrowserTabTitle(focused_browser_tab) ==
    IF focused_browser_tab = None THEN None
    ELSE Unwrap(focused_browser_tab).title

\* focused_browser_tab.as_ref().and_then(|browser_tab| browser_tab.origin.clone())
BrowserTabOrigin(focused_browser_tab) ==
    IF focused_browser_tab = None THEN None
    ELSE Unwrap(focused_browser_tab).origin

\* Variant: the confidence level is left out of the comparison
ComparableWithoutConfidence(snapshot) ==
    [focused_application_display_name |->
        ApplicationDisplayName(snapshot.focused_application),
     focused_window_title |-> WindowTitle(snapshot.focused_window),
     focused_browser_tab_title |-> BrowserTabTitle(snapshot.focused_browser_tab),
     focused_browser_tab_origin |-> BrowserTabOrigin(snapshot.focused_browser_tab),
     confidence_level |-> "High"]

\* impl From<&ActiveAppContextSnapshot> for ComparableActiveAppContext
ComparableActiveAppContext(snapshot) ==
    [focused_application_display_name |->
        ApplicationDisplayName(snapshot.focused_application),
     focused_window_title |-> WindowTitle(snapshot.focused_window),
     focused_browser_tab_title |-> BrowserTabTitle(snapshot.focused_browser_tab),
     focused_browser_tab_origin |-> BrowserTabOrigin(snapshot.focused_browser_tab),
     confidence_level |-> snapshot.confidence_level]

-----------------------------------------------------------------------------
(* Watcher state machine (watcher.rs) *)

AwaitingInitialEmission == [tag |-> "AwaitingInitialEmission"]

StableEmitted(emitted_context) ==
    [tag |-> "StableEmitted", emitted_context |-> emitted_context]

DebouncingCandidate(candidate_context, candidate_snapshot, first_seen_at) ==
    [tag |-> "DebouncingCandidate", candidate_context |-> candidate_context,
     candidate_snapshot |-> candidate_snapshot, first_seen_at |-> first_seen_at]

EmissionCandidate(candidate_context, candidate_snapshot) ==
    [candidate_context |-> candidate_context,
     candidate_snapshot |-> candidate_snapshot]

WatcherPollResult(next_state, candidate) ==
    [next_state |-> next_state, emission_candidate |-> candidate]

\* Variant: the two instants are taken in the wrong order
saturating_duration_since_swapped(later, earlier) ==
    IF earlier >= later THEN earlier - later ELSE 0

\* Instant::saturating_duration_since
saturating_duration_since(later, earlier) ==
    IF later >= earlier THEN later - earlier ELSE 0

\* Variant: the first observation is offered for emission at once
PollAwaitingInitialEmissionEmitsAtOnce(polled_context, polled_snapshot, observed_at) ==
    WatcherPollResult(
        DebouncingCandidate(polled_context, polled_snapshot, observed_at),
        Some(EmissionCandidate(polled_context, polled_snapshot)))

\* The arm for AwaitingInitialEmission
PollAwaitingInitialEmission(polled_context, polled_snapshot, observed_at) ==
    WatcherPollResult(
        DebouncingCandidate(polled_context, polled_snapshot, observed_at), None)

\* Variant: the emitted context is not compared, every poll restarts the debounce
PollStableEmittedAlwaysRestarts(current_state, polled_context, polled_snapshot, observed_at) ==
    WatcherPollResult(
        DebouncingCandidate(polled_context, polled_snapshot, observed_at), None)

\* Variant: a changed context is offered for emission on the tick it appears
PollStableEmittedEmitsOnChange(current_state, polled_context, polled_snapshot, observed_at) ==
    IF current_state.emitted_context = polled_context
    THEN WatcherPollResult(StableEmitted(current_state.emitted_context), None)
    ELSE WatcherPollResult(
             DebouncingCandidate(polled_context, polled_snapshot, observed_at),
             Some(EmissionCandidate(polled_context, polled_snapshot)))

\* The arm for StableEmitted { emitted_context }
PollStableEmitted(current_state, polled_context, polled_snapshot, observed_at) ==
    IF current_state.emitted_context = polled_context
    THEN WatcherPollResult(StableEmitted(current_state.emitted_context), None)
    ELSE WatcherPollResult(
             DebouncingCandidate(polled_context, polled_snapshot, observed_at),
             None)

\* Variant: a changed context inherits the first_seen_at of the one it replaces
PollDebouncingCandidateKeepsTimer(current_state, polled_context, polled_snapshot, observed_at, window) ==
    LET debouncing_candidate_state ==
            DebouncingCandidate(polled_context, polled_snapshot,
                                current_state.first_seen_at)
        elapsed_since_first_seen ==
            IF observed_at >= debouncing_candidate_state.first_seen_at
            THEN observed_at - debouncing_candidate_state.first_seen_at ELSE 0
    IN  WatcherPollResult(
            debouncing_candidate_state,
            IF elapsed_since_first_seen >= window
            THEN Some(EmissionCandidate(
                     debouncing_candidate_state.candidate_context,
                     debouncing_candidate_state.candidate_snapshot))
            ELSE None)

\* Variant: the window must be exceeded, not reached
PollDebouncingCandidateStrictWindow(current_state, polled_context, polled_snapshot, observed_at, window) ==
    LET debouncing_candidate_state ==
            IF current_state.candidate_context = polled_context
            THEN [current_state EXCEPT !.candidate_snapshot = polled_snapshot]
            ELSE DebouncingCandidate(polled_context, polled_snapshot, observed_at)
        elapsed_since_first_seen ==
            IF observed_at >= debouncing_candidate_state.first_seen_at
            THEN observed_at - debouncing_candidate_state.first_seen_at ELSE 0
    IN  WatcherPollResult(
            debouncing_candidate_state,
            IF elapsed_since_first_seen > window
            THEN Some(EmissionCandidate(
                     debouncing_candidate_state.candidate_context,
                     debouncing_candidate_state.candidate_snapshot))
            ELSE None)

\* The arm for DebouncingCandidate(debouncing_candidate_state)
PollDebouncingCandidate(current_state, polled_context, polled_snapshot, observed_at, window) ==
    LET debouncing_candidate_state ==
            IF current_state.candidate_context = polled_context
            THEN [current_state EXCEPT !.candidate_snapshot = polled_snapshot]
            ELSE DebouncingCandidate(polled_context, polled_snapshot, observed_at)
        elapsed_since_first_seen ==
            saturating_duration_since(observed_at,
                                      debouncing_candidate_state.first_seen_at)
    IN  WatcherPollResult(
            debouncing_candidate_state,
            IF elapsed_since_first_seen >= window
            THEN Some(EmissionCandidate(
                     debouncing_candidate_state.candidate_context,
                     debouncing_candidate_state.candidate_snapshot))
            ELSE None)

process_focus_snapshot_poll(current_state, polled_snapshot, observed_at, window) ==
    LET polled_context == ComparableActiveAppContext(polled_snapshot)
    IN  CASE current_state.tag = "AwaitingInitialEmission" ->
                PollAwaitingInitialEmission(polled_context, polled_snapshot,
                                            observed_at)
          [] current_state.tag = "StableEmitted" ->
                PollStableEmitted(current_state, polled_context, polled_snapshot,
                                  observed_at)
          [] current_state.tag = "DebouncingCandidate" ->
                PollDebouncingCandidate(current_state, polled_context,
                                        polled_snapshot, observed_at, window)

\* Variant: a failed delivery forgets the candidate
StateAfterEmitResetsOnFailure(state, candidate, emit_is_ok) ==
    IF emit_is_ok THEN StableEmitted(candidate.candidate_context)
    ELSE AwaitingInitialEmission

\* Variant: a delivery does not move the watcher to StableEmitted
StateAfterEmitStaysDebouncing(state, candidate, emit_is_ok) == state

\* The match on watcher_poll_result.emission_candidate after app.emit
StateAfterEmit(state, candidate, emit_is_ok) ==
    IF emit_is_ok THEN StableEmitted(candidate.candidate_context) ELSE state

-----------------------------------------------------------------------------
(* The snapshots the capture can return in the watcher specifications *)

CodeSnapshot ==
    ActiveAppContextSnapshot(
        Some(FocusedApplication("Code", None, None)),
        Some(FocusedWindow("notes.md")),
        Some(FocusedBrowserTab(Some("Pull Request"), Some("https://example.com"),
                               None)),
        "Polling", "High", "2026-01-01T00:00:00Z")

\* The same focus captured later, by another path
CodeSnapshotLater ==
    ActiveAppContextSnapshot(
        Some(FocusedApplication("Code", Some("com.microsoft.VSCode"), None)),
        Some(FocusedWindow("notes.md")),
        Some(FocusedBrowserTab(Some("Pull Request"), Some("https://example.com"),
                               Some("Google Chrome"))),
        "Accessibility", "High", "2026-01-01T00:10:00Z")

TerminalSnapshot ==
    ActiveAppContextSnapshot(
        Some(FocusedApplication("Terminal", None, None)),
        Some(FocusedWindow("shell")),
        Some(FocusedBrowserTab(None, None, None)),
        "Polling", "High", "2026-01-01T00:00:01Z")

PolledSnapshots == {CodeSnapshot, CodeSnapshotLater, TerminalSnapshot}

ProjInit ==
    /\ left_snapshot = CodeSnapshot
    /\ right_snapshot = CodeSnapshot
    /\ left_context = None
    /\ right_context = None

-----------------------------------------------------------------------------
(* start_focus_watcher: the watcher thread's loop *)

PollRecord(tick, snapshot, observed_at, candidate) ==
    [tick |-> tick, snapshot |-> snapshot, observed_at |-> observed_at,
     emission_candidate |-> candidate]

MarshalInit ==
    /\ main_thread_queue = <<>>
    /\ snapshot_channels = <<>>
    /\ watcher_receiver = None
    /\ query_receiver = None
    /\ query_pc = "idle"
    /\ query_result = None
    /\ query_outcome = "none"

LifecycleInit ==
    /\ focus_watcher_handle = None
    /\ watchers = <<>>
    /\ toggles = 0
    /\ last_toggle = None
    /\ thread_events = <<>>

CaptureIdle ==
    /\ platform = "other"
    /\ os_focus = None
    /\ captured_snapshot = None

\* No shared function has been applied
SharedIdle ==
    /\ url_input = <<>>
    /\ origin_result = None
    /\ title_input = None
    /\ browser_input = <<>>
    /\ tab_title_result = None
    /\ presence_input = [focused_window |-> FALSE, focused_browser_tab |-> FALSE, focused_browser_origin |-> FALSE]
    /\ confidence_result = None

\* No AudioMuteManager has been used
MuteIdle ==
    /\ mute_state = "NotMuting"
    /\ audio_is_muted = FALSE
    /\ set_muted_calls = <<>>
    /\ mute_operations = <<>>
    /\ manager_dropped = FALSE

HistoryIdle ==
    /\ history_entries = <<>>
    /\ history_file = None
    /\ history_result = None
    /\ history_operation = [operation |-> "none"]
    /\ history_calls = 0

ShortcutIdle ==
    /\ shortcut_state = "Idle"
    /\ shortcut_emitted = <<>>
    /\ last_shortcut = None
    /\ shortcut_events = 0

OuterInit == ProjInit /\ MarshalInit /\ LifecycleInit /\ CaptureIdle /\ SharedIdle /\ MuteIdle /\ HistoryIdle /\ ShortcutIdle

Init ==
    /\ focus_watcher_state = AwaitingInitialEmission
    /\ should_stop = FALSE
    /\ pc = "check"
    /\ now = 0
    /\ debounce_window = DebounceWindowMs
    /\ emission_candidate = None
    /\ ticks = 0
    /\ stop_checks = 0
    /\ polls = <<>>
    /\ emitted = <<>>
    /\ OuterInit

\* FocusWatcherHandle::stop, also run by Drop
Stop ==
    /\ ~should_stop
    /\ should_stop' = TRUE
    /\ UNCHANGED <<focus_watcher_state, pc, now, debounce_window,
                   emission_candidate, ticks, stop_checks, polls, emitted>>
    /\ UNCHANGED outer_vars

\* The loop condition reads the flag set and the thread ends
WatcherExit ==
    /\ pc = "check"
    /\ should_stop
    /\ pc' = "done"
    /\ stop_checks' = stop_checks + 1
    /\ UNCHANGED <<focus_watcher_state, should_stop, now, debounce_window,
                   emission_candidate, ticks, polls, emitted>>
    /\ UNCHANGED outer_vars

\* Variant: the loop condition does not look at the flag
LoopCheckIgnoresFlag ==
    /\ pc = "check"
    /\ ticks < MaxTicks
    /\ pc' = "capture"
    /\ ticks' = ticks + 1
    /\ stop_checks' = stop_checks + 1
    /\ UNCHANGED <<focus_watcher_state, should_stop, now, debounce_window,
                   emission_candidate, polls, emitted>>
    /\ UNCHANGED outer_vars

\* The loop condition reads the flag unset and an iteration starts
LoopCheck ==
    /\ pc = "check"
    /\ ~should_stop
    /\ ticks < MaxTicks
    /\ pc' = "capture"
    /\ ticks' = ticks + 1
    /\ stop_checks' = stop_checks + 1
    /\ UNCHANGED <<focus_watcher_state, should_stop, now, debounce_window,
                   emission_candidate, polls, emitted>>
    /\ UNCHANGED outer_vars

\* An iteration whose capture returns a snapshot: the poll is processed
PollTick(snapshot) ==
    /\ pc = "capture"
    /\ LET watcher_poll_result ==
               process_focus_snapshot_poll(focus_watcher_state, snapshot, now,
                                           debounce_window)
       IN  /\ focus_watcher_state' = watcher_poll_result.next_state
           /\ emission_candidate' = watcher_poll_result.emission_candidate
           /\ polls' = Append(polls,
                  PollRecord(ticks, snapshot, now,
                             watcher_poll_result.emission_candidate))
           /\ pc' = IF IsSome(watcher_poll_result.emission_candidate)
                    THEN "emit" ELSE "sleep"
    /\ UNCHANGED <<should_stop, now, debounce_window, ticks, stop_checks, emitted>>
    /\ UNCHANGED outer_vars

\* An iteration whose capture returns None: sleep and continue
PollSkipped ==
    /\ pc = "capture"
    /\ pc' = "sleep"
    /\ UNCHANGED <<focus_watcher_state, should_stop, now, debounce_window,
                   emission_candidate, ticks, stop_checks, polls, emitted>>
    /\ UNCHANGED outer_vars

\* app.emit(...) of the emission candidate, which succeeds or fails
Emit(emit_is_ok) ==
    /\ pc = "emit"
    /\ focus_watcher_state' =
           StateAfterEmit(focus_watcher_state, Unwrap(emission_candidate),
                          emit_is_ok)
    /\ emitted' = IF emit_is_ok
                  THEN Append(emitted,
                           [tick |-> ticks,
                            candidate_context |->
                                Unwrap(emission_candidate).candidate_context,
                            candidate_snapshot |->
                                Unwrap(emission_candidate).candidate_snapshot])
                  ELSE emitted
    /\ emission_candidate' = None
    /\ pc' = "sleep"
    /\ UNCHANGED <<should_stop, now, debounce_window, ticks, stop_checks, polls>>
    /\ UNCHANGED outer_vars

\* Variant: a poll interval shorter than the debounce window
SleepShorterThanDebounceWindow ==
    /\ pc = "sleep"
    /\ now' = now + (DebounceWindowMs - 25)
    /\ pc' = "check"
    /\ UNCHANGED <<focus_watcher_state, should_stop, debounce_window,
                   emission_candidate, ticks, stop_checks, polls, emitted>>
    /\ UNCHANGED outer_vars

\* thread::sleep(poll_interval): the clock advances by the least the sleep
\* guarantees (SpecPoll covers the other spacings of the polls)
Sleep ==
    /\ pc = "sleep"
    /\ now' = now + PollIntervalMs
    /\ pc' = "check"
    /\ UNCHANGED <<focus_watcher_state, should_stop, debounce_window,
                   emission_candidate, ticks, stop_checks, polls, emitted>>
    /\ UNCHANGED outer_vars

Next ==
    \/ Stop
    \/ WatcherExit
    \/ LoopCheck
    \/ \E snapshot \in PolledSnapshots : PollTick(snapshot)
    \/ PollSkipped
    \/ \E emit_is_ok \in BOOLEAN : Emit(emit_is_ok)
    \/ Sleep

Spec == Init /\ [][Next]_vars

\* The steps of the watcher thread: the scheduler runs the thread, a sleep
\* and a capture return
WatcherThread ==
    \/ WatcherExit
    \/ LoopCheck
    \/ \E snapshot \in PolledSnapshots : PollTick(snapshot)
    \/ PollSkipped
    \/ \E emit_is_ok \in BOOLEAN : Emit(emit_is_ok)
    \/ Sleep

SpecFair == Init /\ [][Next]_vars /\ WF_vars(WatcherThread)

-----------------------------------------------------------------------------
(* process_focus_snapshot_poll fed poll by poll, as watcher_tests.rs does:    *)
(* any debounce window, any non-decreasing instants, and the outcome of the  *)
(* delivery applied as the loop applies it.                                  *)

TestWindows == {0, MaxStep}

TestSteps == {0, 1, MaxStep}

InitPoll ==
    /\ focus_watcher_state = AwaitingInitialEmission
    /\ should_stop = FALSE
    /\ pc = "check"
    /\ now = 0
    /\ debounce_window \in TestWindows
    /\ emission_candidate = None
    /\ ticks = 0
    /\ stop_checks = 0
    /\ polls = <<>>
    /\ emitted = <<>>
    /\ OuterInit

FeedPoll(snapshot, step) ==
    /\ pc \in {"check", "sleep"}
    /\ ticks < MaxPolls
    /\ now' = now + step
    /\ LET watcher_poll_result ==
               process_focus_snapshot_poll(focus_watcher_state, snapshot, now',
                                           debounce_window)
       IN  /\ focus_watcher_state' = watcher_poll_result.next_state
           /\ emission_candidate' = watcher_poll_result.emission_candidate
           /\ polls' = Append(polls,
                  PollRecord(ticks + 1, snapshot, now',
                             watcher_poll_result.emission_candidate))
           /\ pc' = IF IsSome(watcher_poll_result.emission_candidate)
                    THEN "emit" ELSE "sleep"
    /\ ticks' = ticks + 1
    /\ UNCHANGED <<should_stop, debounce_window, stop_checks, emitted>>
    /\ UNCHANGED outer_vars

NextPoll ==
    \/ \E snapshot \in PolledSnapshots, step \in TestSteps : FeedPoll(snapshot, step)
    \/ \E emit_is_ok \in BOOLEAN : Emit(emit_is_ok)

SpecPoll == InitPoll /\ [][NextPoll]_vars

-----------------------------------------------------------------------------
(* The same harness fed with snapshots that differ in confidence level only *)

CodeSnapshotMedium == [CodeSnapshot EXCEPT !.confidence_level = "Medium"]

CodeSnapshotLow == [CodeSnapshot EXCEPT !.confidence_level = "Low"]

ConfidenceSnapshots == {CodeSnapshot, CodeSnapshotMedium, CodeSnapshotLow}

NextConfidence ==
    \/ \E snapshot \in ConfidenceSnapshots, step \in TestSteps : FeedPoll(snapshot, step)
    \/ \E emit_is_ok \in BOOLEAN : Emit(emit_is_ok)

SpecConfidence == InitPoll /\ [][NextConfidence]_vars

-----------------------------------------------------------------------------
(* macOS: the capture runs on the main thread.  The watcher's                *)
(* get_active_app_context_snapshot_thread_safe and the command               *)
(* active_app_get_current_context each hand a closure to run_on_main_thread  *)
(* and wait on a sync_channel(1) for at most 150 ms.                         *)

\* fallback_active_app_context_snapshot; captured_at is the time of the call
FallbackSnapshot ==
    ActiveAppContextSnapshot(None, None, None, "Unknown", "Low",
                             "2026-01-01T00:00:02Z")

\* What get_current_active_app_context returns when a closure runs
MainThreadSnapshots == {CodeSnapshot, TerminalSnapshot}

\* mpsc::sync_channel(1) of one request, and whether its closure has run
SnapshotChannel(by) == [by |-> by, slot |-> None, ran |-> FALSE]

\* The snapshot_receiver of the request has not been dropped
ReceiverAlive(request) ==
    Some(request) = watcher_receiver \/ Some(request) = query_receiver

\* app.run_on_main_thread(closure) returning Ok: the closure is queued
RunOnMainThread(by) ==
    /\ Len(snapshot_channels) < MaxRequests
    /\ snapshot_channels' = Append(snapshot_channels, SnapshotChannel(by))
    /\ main_thread_queue' = Append(main_thread_queue, Len(snapshot_channels) + 1)

\* The watcher's capture is dispatched and the thread starts to wait
WatcherRunOnMainThread ==
    /\ pc = "capture"
    /\ RunOnMainThread("watcher")
    /\ watcher_receiver' = Some(Len(snapshot_channels) + 1)
    /\ pc' = "wait"
    /\ UNCHANGED <<focus_watcher_state, should_stop, now, debounce_window,
                   emission_candidate, ticks, stop_checks, polls, emitted>>
    /\ UNCHANGED <<query_receiver, query_pc, query_result, query_outcome>>
    /\ UNCHANGED <<proj_vars, lifecycle_vars, capture_vars, shared_vars, mute_vars, history_vars, shortcut_vars>>

\* run_on_main_thread returns Err: `.ok()?` makes the capture None
WatcherRunOnMainThreadFails ==
    /\ pc = "capture"
    /\ pc' = "sleep"
    /\ UNCHANGED <<focus_watcher_state, should_stop, now, debounce_window,
                   emission_candidate, ticks, stop_checks, polls, emitted>>
    /\ UNCHANGED outer_vars

\* Variant: the requests share one channel, so a snapshot sent after its
\* receiver gave up lands in front of whoever waits now
MainThreadRunsClosureOnSharedChannel(snapshot) ==
    /\ main_thread_queue # <<>>
    /\ snapshot_channels' =
           IF ReceiverAlive(Head(main_thread_queue))
           THEN [snapshot_channels EXCEPT ![Head(main_thread_queue)] =
                    [@ EXCEPT !.ran = TRUE, !.slot = Some(snapshot)]]
           ELSE [i \in 1..Len(snapshot_channels) |->
                    IF i = Head(main_thread_queue)
                    THEN [snapshot_channels[i] EXCEPT !.ran = TRUE]
                    ELSE IF ReceiverAlive(i)
                    THEN [snapshot_channels[i] EXCEPT !.slot = Some(snapshot)]
                    ELSE snapshot_channels[i]]
    /\ main_thread_queue' = Tail(main_thread_queue)
    /\ UNCHANGED <<watcher_receiver, query_receiver, query_pc, query_result,
                   query_outcome>>
    /\ UNCHANGED <<watcher_vars, proj_vars, lifecycle_vars, capture_vars, shared_vars, mute_vars, history_vars, shortcut_vars>>

\* The main thread runs the oldest queued closure: it captures and sends; the
\* send is lost when the receiver is gone
MainThreadRunsClosure(snapshot) ==
    /\ main_thread_queue # <<>>
    /\ snapshot_channels' =
           [snapshot_channels EXCEPT ![Head(main_thread_queue)] =
               [@ EXCEPT !.ran = TRUE,
                         !.slot = IF ReceiverAlive(Head(main_thread_queue))
                                  THEN Some(snapshot) ELSE None]]
    /\ main_thread_queue' = Tail(main_thread_queue)
    /\ UNCHANGED <<watcher_receiver, query_receiver, query_pc, query_result,
                   query_outcome>>
    /\ UNCHANGED <<watcher_vars, proj_vars, lifecycle_vars, capture_vars, shared_vars, mute_vars, history_vars, shortcut_vars>>

\* recv_timeout returns the snapshot: the poll is processed
WatcherRecv ==
    /\ pc = "wait"
    /\ IsSome(snapshot_channels[Unwrap(watcher_receiver)].slot)
    /\ LET snapshot == Unwrap(snapshot_channels[Unwrap(watcher_receiver)].slot)
           watcher_poll_result ==
               process_focus_snapshot_poll(focus_watcher_state, snapshot, now,
                                           debounce_window)
       IN  /\ focus_watcher_state' = watcher_poll_result.next_state
           /\ emission_candidate' = watcher_poll_result.emission_candidate
           /\ polls' = Append(polls,
                  PollRecord(ticks, snapshot, now,
                             watcher_poll_result.emission_candidate))
           /\ pc' = IF IsSome(watcher_poll_result.emission_candidate)
                    THEN "emit" ELSE "sleep"
    /\ watcher_receiver' = None
    /\ UNCHANGED <<should_stop, now, debounce_window, ticks, stop_checks, emitted>>
    /\ UNCHANGED <<main_thread_queue, snapshot_channels, query_receiver,
                   query_pc, query_result, query_outcome>>
    /\ UNCHANGED <<proj_vars, lifecycle_vars, capture_vars, shared_vars, mute_vars, history_vars, shortcut_vars>>

\* Variant: a timed-out capture makes the watcher start over
WatcherRecvTimeoutResetsState ==
    /\ pc = "wait"
    /\ snapshot_channels[Unwrap(watcher_receiver)].slot = None
    /\ now' = now + CaptureTimeoutMs
    /\ watcher_receiver' = None
    /\ pc' = "sleep"
    /\ focus_watcher_state' = AwaitingInitialEmission
    /\ UNCHANGED <<should_stop, debounce_window,
                   emission_candidate, ticks, stop_checks, polls, emitted>>
    /\ UNCHANGED <<main_thread_queue, snapshot_channels, query_receiver,
                   query_pc, query_result, query_outcome>>
    /\ UNCHANGED <<proj_vars, lifecycle_vars, capture_vars, shared_vars, mute_vars, history_vars, shortcut_vars>>

\* recv_timeout returns Err after 150 ms: `.ok()` makes the capture None and
\* the receiver is dropped; the closure stays where it is
WatcherRecvTimeout ==
    /\ pc = "wait"
    /\ snapshot_channels[Unwrap(watcher_receiver)].slot = None
    /\ now' = now + CaptureTimeoutMs
    /\ watcher_receiver' = None
    /\ pc' = "sleep"
    /\ UNCHANGED <<focus_watcher_state, should_stop, debounce_window,
                   emission_candidate, ticks, stop_checks, polls, emitted>>
    /\ UNCHANGED <<main_thread_queue, snapshot_channels, query_receiver,
                   query_pc, query_result, query_outcome>>
    /\ UNCHANGED <<proj_vars, lifecycle_vars, capture_vars, shared_vars, mute_vars, history_vars, shortcut_vars>>

\* active_app_get_current_context: the capture is dispatched
QueryRunOnMainThread ==
    /\ query_pc = "idle"
    /\ RunOnMainThread("query")
    /\ query_receiver' = Some(Len(snapshot_channels) + 1)
    /\ query_pc' = "wait"
    /\ UNCHANGED <<watcher_receiver, query_result, query_outcome>>
    /\ UNCHANGED <<watcher_vars, proj_vars, lifecycle_vars, capture_vars, shared_vars, mute_vars, history_vars, shortcut_vars>>

\* active_app_get_current_context: run_on_main_thread returns Err
QueryRunOnMainThreadFails ==
    /\ query_pc = "idle"
    /\ query_result' = Some(FallbackSnapshot)
    /\ query_outcome' = "dispatch_failed"
    /\ UNCHANGED <<main_thread_queue, snapshot_channels, watcher_receiver,
                   query_receiver, query_pc>>
    /\ UNCHANGED <<watcher_vars, proj_vars, lifecycle_vars, capture_vars, shared_vars, mute_vars, history_vars, shortcut_vars>>

\* active_app_get_current_context: recv_timeout returns the snapshot
QueryRecv ==
    /\ query_pc = "wait"
    /\ IsSome(snapshot_channels[Unwrap(query_receiver)].slot)
    /\ query_result' = snapshot_channels[Unwrap(query_receiver)].slot
    /\ query_outcome' = "answered"
    /\ query_receiver' = None
    /\ query_pc' = "idle"
    /\ UNCHANGED <<main_thread_queue, snapshot_channels, watcher_receiver>>
    /\ UNCHANGED <<watcher_vars, proj_vars, lifecycle_vars, capture_vars, shared_vars, mute_vars, history_vars, shortcut_vars>>

\* Variant: a timed-out query returns the last answer it had
QueryRecvTimeoutKeepsResult ==
    /\ query_pc = "wait"
    /\ snapshot_channels[Unwrap(query_receiver)].slot = None
    /\ query_result' = IF query_result = None THEN Some(FallbackSnapshot)
                       ELSE query_result
    /\ query_outcome' = "timed_out"
    /\ query_receiver' = None
    /\ query_pc' = "idle"
    /\ UNCHANGED <<main_thread_queue, snapshot_channels, watcher_receiver>>
    /\ UNCHANGED <<watcher_vars, proj_vars, lifecycle_vars, capture_vars, shared_vars, mute_vars, history_vars, shortcut_vars>>

\* active_app_get_current_context: recv_timeout returns Err after 150 ms
QueryRecvTimeout ==
    /\ query_pc = "wait"
    /\ snapshot_channels[Unwrap(query_receiver)].slot = None
    /\ query_result' = Some(FallbackSnapshot)
    /\ query_outcome' = "timed_out"
    /\ query_receiver' = None
    /\ query_pc' = "idle"
    /\ UNCHANGED <<main_thread_queue, snapshot_channels, watcher_receiver>>
    /\ UNCHANGED <<watcher_vars, proj_vars, lifecycle_vars, capture_vars, shared_vars, mute_vars, history_vars, shortcut_vars>>

NextMac ==
    \/ Stop
    \/ WatcherExit
    \/ LoopCheck
    \/ WatcherRunOnMainThread
    \/ WatcherRunOnMainThreadFails
    \/ \E snapshot \in MainThreadSnapshots : MainThreadRunsClosure(snapshot)
    \/ WatcherRecv
    \/ WatcherRecvTimeout
    \/ \E emit_is_ok \in BOOLEAN : Emit(emit_is_ok)
    \/ Sleep
    \/ QueryRunOnMainThread
    \/ QueryRunOnMainThreadFails
    \/ QueryRecv
    \/ QueryRecvTimeout

SpecMac == Init /\ [][NextMac]_vars

-----------------------------------------------------------------------------
(* sync_focus_watcher_enabled: the setting starts and stops watcher threads. *)
(* Every thread started runs the loop of start_focus_watcher on its own      *)
(* state and reads the clock for itself.                                     *)

\* The thread spawned by start_focus_watcher, before its first iteration
\* stopped_at is history: where the thread was when stop() was called on its
\* handle, and how many events it had delivered
SpawnedWatcher ==
    [should_stop |-> FALSE, pc |-> "check",
     focus_watcher_state |-> AwaitingInitialEmission, now |-> 0,
     emission_candidate |-> None, ticks |-> 0, stopped_at |-> None]

\* The events the watcher has delivered
EventsOf(w) == {k \in 1..Len(thread_events) : thread_events[k].watcher = w}

\* FocusWatcherHandle::stop, also run by Drop: the flag is stored as true
StoppedWatcher(w) ==
    [watchers[w] EXCEPT
        !.should_stop = TRUE,
        !.stopped_at = Some([pc |-> watchers[w].pc, ticks |-> watchers[w].ticks,
                             events |-> Cardinality(EventsOf(w))])]

LifecycleSnapshots == {CodeSnapshot, TerminalSnapshot}

\* Variant: enabling starts a watcher whether or not one is stored
sync_focus_watcher_enabled_always_starts(send_active_app_context_enabled) ==
    /\ toggles < MaxToggles
    /\ toggles' = toggles + 1
    /\ last_toggle' = Some(send_active_app_context_enabled)
    /\ IF send_active_app_context_enabled
       THEN /\ watchers' = Append(watchers, SpawnedWatcher)
            /\ focus_watcher_handle' = Some(Len(watchers) + 1)
       ELSE IF IsSome(focus_watcher_handle)
            THEN /\ focus_watcher_handle' = None
                 /\ watchers' = [watchers EXCEPT
                        ![Unwrap(focus_watcher_handle)] =
                            StoppedWatcher(Unwrap(focus_watcher_handle))]
            ELSE UNCHANGED <<focus_watcher_handle, watchers>>
    /\ UNCHANGED thread_events
    /\ UNCHANGED <<watcher_vars, proj_vars, marshal_vars, capture_vars, shared_vars, mute_vars, history_vars, shortcut_vars>>

\* reconcile_focus_watcher_enabled_state holds the mutex of
\* AppState.focus_watcher around the whole call
sync_focus_watcher_enabled(send_active_app_context_enabled) ==
    /\ toggles < MaxToggles
    /\ toggles' = toggles + 1
    /\ last_toggle' = Some(send_active_app_context_enabled)
    /\ IF send_active_app_context_enabled
       THEN IF focus_watcher_handle = None
            THEN /\ watchers' = Append(watchers, SpawnedWatcher)
                 /\ focus_watcher_handle' = Some(Len(watchers) + 1)
            ELSE UNCHANGED <<focus_watcher_handle, watchers>>
       ELSE IF IsSome(focus_watcher_handle)
            THEN /\ focus_watcher_handle' = None
                 /\ watchers' = [watchers EXCEPT
                        ![Unwrap(focus_watcher_handle)] =
                            StoppedWatcher(Unwrap(focus_watcher_handle))]
            ELSE UNCHANGED <<focus_watcher_handle, watchers>>
    /\ UNCHANGED thread_events
    /\ UNCHANGED <<watcher_vars, proj_vars, marshal_vars, capture_vars, shared_vars, mute_vars, history_vars, shortcut_vars>>

\* What a step of one thread leaves alone
ThreadStepFrame ==
    /\ UNCHANGED <<focus_watcher_handle, toggles, last_toggle>>
    /\ UNCHANGED <<watcher_vars, proj_vars, marshal_vars, capture_vars, shared_vars, mute_vars, history_vars, shortcut_vars>>

\* Variant: the loop condition does not look at the flag
ThreadLoopCheckIgnoresFlag(w) ==
    /\ watchers[w].pc = "check"
    /\ watchers[w].ticks < MaxThreadTicks
    /\ watchers' = [watchers EXCEPT ![w].pc = "capture", ![w].ticks = @ + 1]
    /\ UNCHANGED thread_events
    /\ ThreadStepFrame

ThreadLoopCheck(w) ==
    /\ watchers[w].pc = "check"
    /\ ~watchers[w].should_stop
    /\ watchers[w].ticks < MaxThreadTicks
    /\ watchers' = [watchers EXCEPT ![w].pc = "capture", ![w].ticks = @ + 1]
    /\ UNCHANGED thread_events
    /\ ThreadStepFrame

ThreadExit(w) ==
    /\ watchers[w].pc = "check"
    /\ watchers[w].should_stop
    /\ watchers' = [watchers EXCEPT ![w].pc = "done"]
    /\ UNCHANGED thread_events
    /\ ThreadStepFrame

ThreadPollTick(w, snapshot) ==
    /\ watchers[w].pc = "capture"
    /\ LET watcher_poll_result ==
               process_focus_snapshot_poll(watchers[w].focus_watcher_state,
                                           snapshot, watchers[w].now,
                                           DebounceWindowMs)
       IN  watchers' = [watchers EXCEPT
               ![w].focus_watcher_state = watcher_poll_result.next_state,
               ![w].emission_candidate = watcher_poll_result.emission_candidate,
               ![w].pc = IF IsSome(watcher_poll_result.emission_candidate)
                         THEN "emit" ELSE "sleep"]
    /\ UNCHANGED thread_events
    /\ ThreadStepFrame

ThreadPollSkipped(w) ==
    /\ watchers[w].pc = "capture"
    /\ watchers' = [watchers EXCEPT ![w].pc = "sleep"]
    /\ UNCHANGED thread_events
    /\ ThreadStepFrame

ThreadEmit(w, emit_is_ok) ==
    /\ watchers[w].pc = "emit"
    /\ watchers' = [watchers EXCEPT
           ![w].focus_watcher_state =
               StateAfterEmit(watchers[w].focus_watcher_state,
                              Unwrap(watchers[w].emission_candidate), emit_is_ok),
           ![w].emission_candidate = None,
           ![w].pc = "sleep"]
    /\ thread_events' =
           IF emit_is_ok
           THEN Append(thread_events,
                    [watcher |-> w, watchers_started |-> Len(watchers),
                     candidate_snapshot |->
                         Unwrap(watchers[w].emission_candidate).candidate_snapshot])
           ELSE thread_events
    /\ ThreadStepFrame

ThreadSleep(w) ==
    /\ watchers[w].pc = "sleep"
    /\ watchers' = [watchers EXCEPT ![w].pc = "check",
                                    ![w].now = @ + PollIntervalMs]
    /\ UNCHANGED thread_events
    /\ ThreadStepFrame

NextLifecycle ==
    \/ \E enabled \in BOOLEAN : sync_focus_watcher_enabled(enabled)
    \/ \E w \in 1..Len(watchers) : ThreadLoopCheck(w)
    \/ \E w \in 1..Len(watchers) : ThreadExit(w)
    \/ \E w \in 1..Len(watchers), snapshot \in LifecycleSnapshots :
           ThreadPollTick(w, snapshot)
    \/ \E w \in 1..Len(watchers) : ThreadPollSkipped(w)
    \/ \E w \in 1..Len(watchers), emit_is_ok \in BOOLEAN : ThreadEmit(w, emit_is_ok)
    \/ \E w \in 1..Len(watchers) : ThreadSleep(w)

SpecLifecycle == Init /\ [][NextLifecycle]_vars

-----------------------------------------------------------------------------
(* Text.  In the capture a string is the sequence of its characters, each a   *)
(* one-character string.                                                     *)

WhitespaceChars == {" ", "\t", "\n"}

UpperCaseChars == <<"A", "B", "C", "D", "E", "F", "G", "H", "I", "J", "K", "L", "M", "N", "O", "P", "Q", "R", "S", "T", "U", "V", "W", "X", "Y", "Z">>

LowerCaseChars == <<"a", "b", "c", "d", "e", "f", "g", "h", "i", "j", "k", "l", "m", "n", "o", "p", "q", "r", "s", "t", "u", "v", "w", "x", "y", "z">>

\* char::to_lowercase on the letters of the tables
LowerChar(c) ==
    IF \E i \in 1..Len(UpperCaseChars) : UpperCaseChars[i] = c
    THEN LowerCaseChars[CHOOSE i \in 1..Len(UpperCaseChars) : UpperCaseChars[i] = c]
    ELSE c

\* str::to_lowercase
ToLowercase(text) == [i \in 1..Len(text) |-> LowerChar(text[i])]

\* The least member of a non-empty set of indices
MinIndex(indices) == CHOOSE i \in indices : \A j \in indices : i <= j

MaxIndex(indices) == CHOOSE i \in indices : \A j \in indices : j <= i

\* str::trim
Trim(text) ==
    LET kept == {i \in 1..Len(text) : text[i] \notin WhitespaceChars}
    IN  IF kept = {} THEN <<>> ELSE SubSeq(text, MinIndex(kept), MaxIndex(kept))

\* str::find(pattern): the index of the first match, 0 when there is none
Find(text, pattern) ==
    LET matches == {i \in 1..(Len(text) - Len(pattern) + 1) :
                        SubSeq(text, i, i + Len(pattern) - 1) = pattern}
    IN  IF matches = {} THEN 0 ELSE MinIndex(matches)

\* str::find([chars]): the index of the first character of the set, 0 if none
FindAnyOf(text, chars) ==
    LET matches == {i \in 1..Len(text) : text[i] \in chars}
    IN  IF matches = {} THEN 0 ELSE MinIndex(matches)

\* str::contains
Contains(text, pattern) == Find(text, pattern) # 0

\* str::strip_suffix
StripSuffix(text, suffix) ==
    IF /\ Len(suffix) <= Len(text)
       /\ SubSeq(text, Len(text) - Len(suffix) + 1, Len(text)) = suffix
    THEN Some(SubSeq(text, 1, Len(text) - Len(suffix)))
    ELSE None

-----------------------------------------------------------------------------
(* active_app_context/shared.rs *)

normalize_non_empty_focus_text(raw_focus_text) ==
    IF Trim(raw_focus_text) = <<>> THEN None ELSE Some(Trim(raw_focus_text))

AuthorityEndChars == {"/", "?", "#"}

\* &text[..text.find(['/', '?', '#']).unwrap_or(text.len())]
AuthorityComponent(text) ==
    IF FindAnyOf(text, AuthorityEndChars) = 0 THEN text
    ELSE SubSeq(text, 1, FindAnyOf(text, AuthorityEndChars) - 1)

\* The same, with the authority ending at the first '/' only
normalize_origin_from_absolute_url_path_only(trimmed_document_url) ==
    LET scheme_separator_index == Find(trimmed_document_url, <<":", "/", "/">>)
        url_scheme == SubSeq(trimmed_document_url, 1, scheme_separator_index - 1)
        url_remainder == SubSeq(trimmed_document_url, scheme_separator_index + 3,
                                Len(trimmed_document_url))
        authority_component ==
            IF FindAnyOf(url_remainder, {"/"}) = 0 THEN url_remainder
            ELSE SubSeq(url_remainder, 1, FindAnyOf(url_remainder, {"/"}) - 1)
    IN  IF scheme_separator_index = 0 THEN None
        ELSE IF url_scheme = <<>> \/ url_remainder = <<>> THEN None
        ELSE IF authority_component = <<>> THEN None
        ELSE Some(url_scheme \o <<":", "/", "/">> \o authority_component)

normalize_origin_from_absolute_url(trimmed_document_url) ==
    LET scheme_separator_index == Find(trimmed_document_url, <<":", "/", "/">>)
        url_scheme == SubSeq(trimmed_document_url, 1, scheme_separator_index - 1)
        url_remainder == SubSeq(trimmed_document_url, scheme_separator_index + 3,
                                Len(trimmed_document_url))
        authority_component == AuthorityComponent(url_remainder)
    IN  IF scheme_separator_index = 0 THEN None
        ELSE IF url_scheme = <<>> \/ url_remainder = <<>> THEN None
        ELSE IF authority_component = <<>> THEN None
        ELSE Some(url_scheme \o <<":", "/", "/">> \o authority_component)

DigitChars == {"0", "1", "2", "3", "4", "5", "6", "7", "8", "9"}

\* The value of a decimal numeral of at most three digits
DigitValue(c) ==
    CASE c = "0" -> 0 [] c = "1" -> 1 [] c = "2" -> 2 [] c = "3" -> 3
      [] c = "4" -> 4 [] c = "5" -> 5 [] c = "6" -> 6 [] c = "7" -> 7
      [] c = "8" -> 8 [] OTHER -> 9

\* One part of a dotted quad: one to three digits, at most 255, no leading zero
IsIpv4Octet(text) ==
    /\ Len(text) \in 1..3
    /\ \A i \in 1..Len(text) : text[i] \in DigitChars
    /\ Len(text) > 1 => text[1] # "0"
    /\ (Len(text) = 3
        => 100 * DigitValue(text[1]) + 10 * DigitValue(text[2])
               + DigitValue(text[3]) <= 255)

\* text.parse::<IpAddr>().is_ok() for a text without ':' (an IPv6 literal has
\* one): four octets separated by three dots
ParsesAsIpAddr(text) ==
    LET dots == {i \in 1..Len(text) : text[i] = "."}
    IN  /\ Cardinality(dots) = 3
        /\ \A i \in 1..Len(text) : text[i] \in DigitChars \cup {"."}
        /\ LET d1 == MinIndex(dots)
               d3 == MaxIndex(dots)
               d2 == CHOOSE i \in dots : i # d1 /\ i # d3
           IN  /\ IsIpv4Octet(SubSeq(text, 1, d1 - 1))
               /\ IsIpv4Octet(SubSeq(text, d1 + 1, d2 - 1))
               /\ IsIpv4Octet(SubSeq(text, d2 + 1, d3 - 1))
               /\ IsIpv4Octet(SubSeq(text, d3 + 1, Len(text)))

\* The same, with the port dropped from the origin
normalize_origin_from_scheme_less_url_without_port(trimmed_document_url) ==
    LET authority_component == AuthorityComponent(trimmed_document_url)
        authority_without_port ==
            IF FindAnyOf(authority_component, {":"}) = 0 THEN authority_component
            ELSE SubSeq(authority_component, 1,
                        FindAnyOf(authority_component, {":"}) - 1)
    IN  IF FindAnyOf(trimmed_document_url, WhitespaceChars) # 0 THEN None
        ELSE IF authority_component = <<>> THEN None
        ELSE IF ~(Contains(authority_without_port, <<".">>)
                  \/ ToLowercase(authority_without_port) = <<"l", "o", "c", "a", "l", "h", "o", "s", "t">>
                  \/ ParsesAsIpAddr(authority_without_port)) THEN None
        ELSE Some(<<"h", "t", "t", "p", "s", ":", "/", "/">> \o authority_without_port)

normalize_origin_from_scheme_less_url(trimmed_document_url) ==
    LET authority_component == AuthorityComponent(trimmed_document_url)
        authority_without_port ==
            IF FindAnyOf(authority_component, {":"}) = 0 THEN authority_component
            ELSE SubSeq(authority_component, 1,
                        FindAnyOf(authority_component, {":"}) - 1)
        looks_like_domain_name == Contains(authority_without_port, <<".">>)
        looks_like_localhost ==
            ToLowercase(authority_without_port) = <<"l", "o", "c", "a", "l", "h", "o", "s", "t">>
        looks_like_ip_address == ParsesAsIpAddr(authority_without_port)
    IN  IF FindAnyOf(trimmed_document_url, WhitespaceChars) # 0 THEN None
        ELSE IF authority_component = <<>> THEN None
        ELSE IF ~(looks_like_domain_name \/ looks_like_localhost
                  \/ looks_like_ip_address) THEN None
        ELSE Some(<<"h", "t", "t", "p", "s", ":", "/", "/">> \o authority_component)

normalize_browser_document_origin(raw_document_url) ==
    LET trimmed_document_url == normalize_non_empty_focus_text(raw_document_url)
    IN  IF trimmed_document_url = None THEN None
        ELSE IF IsSome(normalize_origin_from_absolute_url(Unwrap(trimmed_document_url)))
        THEN normalize_origin_from_absolute_url(Unwrap(trimmed_document_url))
        ELSE normalize_origin_from_scheme_less_url(Unwrap(trimmed_document_url))

\* The two title separators of the source: " - " and the five characters
\* written there as a space, the three characters of a mis-decoded dash, and
\* a space
TitleSeparators == << <<" ", "-", " ">>, <<" ", "a-circumflex", "euro-sign", "right-double-quote", " ">> >>

\* The outcome of the loop for one separator: None when the suffix is absent
TabTitleBySeparator(focused_window_title, title_separator, browser_name) ==
    LET raw_tab_title == StripSuffix(focused_window_title,
                                     title_separator \o browser_name)
    IN  IF raw_tab_title = None THEN None
        ELSE IF IsSome(normalize_non_empty_focus_text(Unwrap(raw_tab_title)))
        THEN normalize_non_empty_focus_text(Unwrap(raw_tab_title))
        ELSE Some(focused_window_title)

infer_browser_tab_title_from_window_title(focused_window_title, browser_name) ==
    LET normalized == IF focused_window_title = None THEN None
                      ELSE normalize_non_empty_focus_text(Unwrap(focused_window_title))
    IN  IF normalized = None THEN None
        ELSE IF IsSome(TabTitleBySeparator(Unwrap(normalized), TitleSeparators[1],
                                           browser_name))
        THEN TabTitleBySeparator(Unwrap(normalized), TitleSeparators[1], browser_name)
        ELSE IF IsSome(TabTitleBySeparator(Unwrap(normalized), TitleSeparators[2],
                                           browser_name))
        THEN TabTitleBySeparator(Unwrap(normalized), TitleSeparators[2], browser_name)
        ELSE normalized

\* The same, with High for every origin, window or not
determine_focus_confidence_level_origin_only(focused_window_is_present, focused_browser_tab_is_present, focused_browser_origin_is_present) ==
    IF focused_browser_origin_is_present THEN "High"
    ELSE IF focused_window_is_present \/ focused_browser_tab_is_present THEN "Medium"
    ELSE "Low"

\* The same, with High for a tab that has no window
determine_focus_confidence_level_lone_tab_high(focused_window_is_present, focused_browser_tab_is_present, focused_browser_origin_is_present) ==
    IF focused_window_is_present /\ focused_browser_origin_is_present THEN "High"
    ELSE IF ~focused_window_is_present /\ focused_browser_tab_is_present THEN "High"
    ELSE IF focused_window_is_present THEN "Medium"
    ELSE "Low"

determine_focus_confidence_level(focused_window_is_present, focused_browser_tab_is_present, focused_browser_origin_is_present) ==
    IF focused_window_is_present /\ focused_browser_origin_is_present THEN "High"
    ELSE IF focused_window_is_present \/ focused_browser_tab_is_present THEN "Medium"
    ELSE "Low"

-----------------------------------------------------------------------------
(* SupportedBrowser (active_app_context/mod.rs) and the two tables *)

SupportedBrowserDisplayNames ==
    {<<"Safari", <<"S", "a", "f", "a", "r", "i">>>>,
     <<"GoogleChrome", <<"G", "o", "o", "g", "l", "e", " ", "C", "h", "r", "o", "m", "e">>>>,
     <<"MicrosoftEdge", <<"M", "i", "c", "r", "o", "s", "o", "f", "t", " ", "E", "d", "g", "e">>>>,
     <<"BraveBrowser", <<"B", "r", "a", "v", "e", " ", "B", "r", "o", "w", "s", "e", "r">>>>,
     <<"Arc", <<"A", "r", "c">>>>,
     <<"Firefox", <<"F", "i", "r", "e", "f", "o", "x">>>>,
     <<"Opera", <<"O", "p", "e", "r", "a">>>>,
     <<"Vivaldi", <<"V", "i", "v", "a", "l", "d", "i">>>>,
     <<"Chromium", <<"C", "h", "r", "o", "m", "i", "u", "m">>>>}

\* SupportedBrowser::display_name
display_name(supported_browser) ==
    (CHOOSE row \in SupportedBrowserDisplayNames : row[1] = supported_browser)[2]

BundleIdentifierTable ==
    {<<<<"c", "o", "m", ".", "a", "p", "p", "l", "e", ".", "S", "a", "f", "a", "r", "i">>, "Safari">>,
     <<<<"c", "o", "m", ".", "g", "o", "o", "g", "l", "e", ".", "C", "h", "r", "o", "m", "e">>, "GoogleChrome">>,
     <<<<"c", "o", "m", ".", "m", "i", "c", "r", "o", "s", "o", "f", "t", ".", "e", "d", "g", "e", "m", "a", "c">>, "MicrosoftEdge">>,
     <<<<"c", "o", "m", ".", "b", "r", "a", "v", "e", ".", "B", "r", "o", "w", "s", "e", "r">>, "BraveBrowser">>,
     <<<<"c", "o", "m", "p", "a", "n", "y", ".", "t", "h", "e", "b", "r", "o", "w", "s", "e", "r", ".", "B", "r", "o", "w", "s", "e", "r">>, "Arc">>,
     <<<<"o", "r", "g", ".", "m", "o", "z", "i", "l", "l", "a", ".", "f", "i", "r", "e", "f", "o", "x">>, "Firefox">>,
     <<<<"c", "o", "m", ".", "o", "p", "e", "r", "a", "s", "o", "f", "t", "w", "a", "r", "e", ".", "O", "p", "e", "r", "a">>, "Opera">>,
     <<<<"c", "o", "m", ".", "v", "i", "v", "a", "l", "d", "i", ".", "V", "i", "v", "a", "l", "d", "i">>, "Vivaldi">>,
     <<<<"o", "r", "g", ".", "c", "h", "r", "o", "m", "i", "u", "m", ".", "C", "h", "r", "o", "m", "i", "u", "m">>, "Chromium">>}

\* macos.rs
supported_browser_from_bundle_identifier(bundle_identifier) ==
    IF \E row \in BundleIdentifierTable : row[1] = bundle_identifier
    THEN Some((CHOOSE row \in BundleIdentifierTable : row[1] = bundle_identifier)[2])
    ELSE None

ApplicationNameTable ==
    {<<<<"c", "h", "r", "o", "m", "e">>, "GoogleChrome">>,
     <<<<"m", "s", "e", "d", "g", "e">>, "MicrosoftEdge">>,
     <<<<"e", "d", "g", "e">>, "MicrosoftEdge">>,
     <<<<"b", "r", "a", "v", "e">>, "BraveBrowser">>,
     <<<<"o", "p", "e", "r", "a">>, "Opera">>,
     <<<<"o", "p", "e", "r", "a", "_", "g", "x">>, "Opera">>,
     <<<<"a", "r", "c">>, "Arc">>,
     <<<<"v", "i", "v", "a", "l", "d", "i">>, "Vivaldi">>,
     <<<<"c", "h", "r", "o", "m", "i", "u", "m">>, "Chromium">>,
     <<<<"f", "i", "r", "e", "f", "o", "x">>, "Firefox">>}

\* windows.rs
supported_browser_from_application_name(application_name) ==
    IF \E row \in ApplicationNameTable : row[1] = ToLowercase(application_name)
    THEN Some((CHOOSE row \in ApplicationNameTable :
                   row[1] = ToLowercase(application_name))[2])
    ELSE None

\* chrono::Utc::now().to_rfc3339() of the capture
CapturedAt == "2026-01-01T00:00:00Z"

-----------------------------------------------------------------------------
(* active_app_context/macos.rs.  os is what the system reports at the capture: *)
(* the frontmost application, whether the process is trusted for             *)
(* accessibility, the focused window element of that application and its     *)
(* AXTitle and AXDocument, and the on-screen window list.                     *)

collect_frontmost_application_metadata(os) ==
    IF os.frontmost_application = None THEN None
    ELSE Some([display_name |->
                   IF Unwrap(os.frontmost_application).localized_name = None
                   THEN <<"U", "n", "k", "n", "o", "w", "n">>
                   ELSE Unwrap(Unwrap(os.frontmost_application).localized_name),
               bundle_identifier |->
                   Unwrap(os.frontmost_application).bundle_identifier,
               process_identifier |->
                   Unwrap(os.frontmost_application).process_identifier])

\* A string attribute of an element: absent, not a string, or its trimmed text
copy_accessibility_string_attribute_value(attribute_value) ==
    IF attribute_value = None THEN None
    ELSE normalize_non_empty_focus_text(Unwrap(attribute_value))

get_accessibility_focused_window_details(os) ==
    IF ~os.focused_window_element THEN None
    ELSE Some([focused_window_title |->
                   copy_accessibility_string_attribute_value(os.ax_title),
               focused_document_url |->
                   copy_accessibility_string_attribute_value(os.ax_document)])

\* The same, querying the accessibility tree although no application is frontmost
get_accessibility_focused_window_details_without_application(os, frontmost_application_metadata) ==
    IF ~os.accessibility_trusted THEN None
    ELSE get_accessibility_focused_window_details(os)

\* The same, querying the accessibility tree although the process is not trusted
get_accessibility_focused_window_details_untrusted(os, frontmost_application_metadata) ==
    IF frontmost_application_metadata = None THEN None
    ELSE get_accessibility_focused_window_details(os)

get_accessibility_focused_window_details_for_frontmost_application(os, frontmost_application_metadata) ==
    IF ~os.accessibility_trusted THEN None
    ELSE IF frontmost_application_metadata = None THEN None
    ELSE get_accessibility_focused_window_details(os)

\* The windows of the list that the loop would return the title of
TitledFrontmostWindows(os, frontmost_process_identifier) ==
    {i \in 1..Len(os.window_list) :
        /\ os.window_list[i].owner_pid = frontmost_process_identifier
        /\ os.window_list[i].layer = 0
        /\ os.window_list[i].name # None
        /\ IsSome(normalize_non_empty_focus_text(Unwrap(os.window_list[i].name)))}

get_frontmost_window_title_from_core_graphics(os, frontmost_process_identifier) ==
    IF TitledFrontmostWindows(os, frontmost_process_identifier) = {} THEN None
    ELSE normalize_non_empty_focus_text(Unwrap(
             os.window_list[MinIndex(TitledFrontmostWindows(
                 os, frontmost_process_identifier))].name))

build_focused_application(frontmost_application_metadata) ==
    IF frontmost_application_metadata = None THEN None
    ELSE Some(FocusedApplication(
                  Unwrap(frontmost_application_metadata).display_name,
                  Unwrap(frontmost_application_metadata).bundle_identifier,
                  None))

determine_focused_window_title(os, frontmost_application_metadata, accessibility_focused_window_details) ==
    IF /\ IsSome(accessibility_focused_window_details)
       /\ IsSome(Unwrap(accessibility_focused_window_details).focused_window_title)
    THEN Unwrap(accessibility_focused_window_details).focused_window_title
    ELSE IF frontmost_application_metadata = None THEN None
    ELSE get_frontmost_window_title_from_core_graphics(
             os, Unwrap(frontmost_application_metadata).process_identifier)

\* frontmost_application_metadata.and_then(bundle_identifier.and_then(table))
MacSupportedBrowser(frontmost_application_metadata) ==
    IF frontmost_application_metadata = None THEN None
    ELSE IF Unwrap(frontmost_application_metadata).bundle_identifier = None THEN None
    ELSE supported_browser_from_bundle_identifier(
             Unwrap(Unwrap(frontmost_application_metadata).bundle_identifier))

\* details.and_then(focused_document_url).and_then(normalize_browser_document_origin)
MacDocumentOrigin(accessibility_focused_window_details) ==
    IF accessibility_focused_window_details = None THEN None
    ELSE IF Unwrap(accessibility_focused_window_details).focused_document_url = None
    THEN None
    ELSE normalize_browser_document_origin(
             Unwrap(Unwrap(accessibility_focused_window_details).focused_document_url))

\* Variant: the application is not classified, every application is Safari
build_focused_browser_tab_unclassified(frontmost_application_metadata, focused_window_title, accessibility_focused_window_details) ==
    LET normalized_browser_document_origin ==
            MacDocumentOrigin(accessibility_focused_window_details)
        inferred_browser_tab_title ==
            infer_browser_tab_title_from_window_title(focused_window_title,
                                                      display_name("Safari"))
    IN  IF inferred_browser_tab_title = None /\ normalized_browser_document_origin = None
        THEN None
        ELSE Some(FocusedBrowserTab(inferred_browser_tab_title,
                                    normalized_browser_document_origin,
                                    Some(display_name("Safari"))))

\* Variant: a tab is built for a browser even with neither title nor origin
build_focused_browser_tab_empty_shell(frontmost_application_metadata, focused_window_title, accessibility_focused_window_details) ==
    LET supported_browser == MacSupportedBrowser(frontmost_application_metadata)
    IN  IF supported_browser = None THEN None
        ELSE Some(FocusedBrowserTab(
                      infer_browser_tab_title_from_window_title(
                          focused_window_title, display_name(Unwrap(supported_browser))),
                      MacDocumentOrigin(accessibility_focused_window_details),
                      Some(display_name(Unwrap(supported_browser)))))

build_focused_browser_tab(frontmost_application_metadata, focused_window_title, accessibility_focused_window_details) ==
    LET supported_browser == MacSupportedBrowser(frontmost_application_metadata)
        normalized_browser_document_origin ==
            MacDocumentOrigin(accessibility_focused_window_details)
        inferred_browser_tab_title ==
            infer_browser_tab_title_from_window_title(
                focused_window_title, display_name(Unwrap(supported_browser)))
    IN  IF supported_browser = None THEN None
        ELSE IF inferred_browser_tab_title = None
                /\ normalized_browser_document_origin = None
        THEN None
        ELSE Some(FocusedBrowserTab(inferred_browser_tab_title,
                                    normalized_browser_document_origin,
                                    Some(display_name(Unwrap(supported_browser)))))

\* focused_browser_tab.as_ref().and_then(|tab| tab.origin.as_ref()).is_some()
FocusedBrowserOriginIsPresent(focused_browser_tab) ==
    /\ IsSome(focused_browser_tab)
    /\ IsSome(Unwrap(focused_browser_tab).origin)

\* macos::get_current_active_app_context
macos_get_current_active_app_context(os) ==
    LET frontmost_application_metadata == collect_frontmost_application_metadata(os)
        accessibility_focused_window_details ==
            get_accessibility_focused_window_details_for_frontmost_application(
                os, frontmost_application_metadata)
        focused_application == build_focused_application(frontmost_application_metadata)
        focused_window_title ==
            determine_focused_window_title(os, frontmost_application_metadata,
                                           accessibility_focused_window_details)
        focused_window == IF focused_window_title = None THEN None
                          ELSE Some(FocusedWindow(Unwrap(focused_window_title)))
        focused_browser_tab ==
            build_focused_browser_tab(frontmost_application_metadata,
                                      focused_window_title,
                                      accessibility_focused_window_details)
        event_source == IF IsSome(accessibility_focused_window_details)
                        THEN "Accessibility" ELSE "Polling"
        confidence_level ==
            determine_focus_confidence_level(
                IsSome(focused_window), IsSome(focused_browser_tab),
                FocusedBrowserOriginIsPresent(focused_browser_tab))
    IN  ActiveAppContextSnapshot(focused_application, focused_window,
                                 focused_browser_tab, event_source,
                                 confidence_level, CapturedAt)

-----------------------------------------------------------------------------
(* active_app_context/windows.rs.  os is what the system reports at the      *)
(* capture: whether there is a foreground window, its text, the path of its  *)
(* process, whether UI Automation can be used on it, and its edit controls.   *)

PathSeparators == {"\\", "/"}

\* The component of the path that starts at index first
PathComponent(path, first) ==
    SubSeq(path, first,
           MaxIndex({j \in first..Len(path) :
                        \A k \in first..j : path[k] \notin PathSeparators}))

\* Path::file_name: the last component, unless the path ends in "..", has no
\* component, or has only a drive prefix; "." components do not count
FileName(path) ==
    LET after_prefix == IF Len(path) >= 2 /\ path[2] = ":" THEN 3 ELSE 1
        starts == {i \in after_prefix..Len(path) :
                      /\ path[i] \notin PathSeparators
                      /\ i = after_prefix \/ path[i - 1] \in PathSeparators
                      /\ PathComponent(path, i) # <<".">>}
    IN  IF starts = {} THEN None
        ELSE IF PathComponent(path, MaxIndex(starts)) = <<".", ".">> THEN None
        ELSE Some(PathComponent(path, MaxIndex(starts)))

\* Path::file_stem: the file name up to its last dot, the whole name when it
\* has no dot or only a leading one
FileStem(path) ==
    LET file_name == FileName(path)
        dots == {i \in 1..Len(Unwrap(file_name)) : Unwrap(file_name)[i] = "."}
    IN  IF file_name = None THEN None
        ELSE IF dots = {} \/ MaxIndex(dots) = 1 THEN file_name
        ELSE Some(SubSeq(Unwrap(file_name), 1, MaxIndex(dots) - 1))

get_application_display_name(process_path) ==
    IF FileStem(process_path) = None THEN process_path
    ELSE Unwrap(FileStem(process_path))

\* GetWindowTextW: a length of zero or less gives no title
get_window_title(os) ==
    IF os.window_text = <<>> THEN None ELSE Some(os.window_text)

AutomationIdMarkers ==
    {<<"a", "d", "d", "r", "e", "s", "s">>,
     <<"s", "e", "a", "r", "c", "h", "b", "o", "x">>,
     <<"u", "r", "l", "b", "a", "r">>,
     <<"o", "m", "n", "i", "b", "o", "x">>}

ControlNameMarkers ==
    {<<"a", "d", "d", "r", "e", "s", "s", " ", "a", "n", "d", " ", "s", "e", "a", "r", "c", "h", " ", "b", "a", "r">>,
     <<"s", "e", "a", "r", "c", "h", " ", "o", "r", " ", "e", "n", "t", "e", "r", " ", "a", "d", "d", "r", "e", "s", "s">>,
     <<"s", "e", "a", "r", "c", "h", " ", "w", "i", "t", "h", " ", "g", "o", "o", "g", "l", "e", " ", "o", "r", " ", "e", "n", "t", "e", "r", " ", "a", "d", "d", "r", "e", "s", "s">>,
     <<"a", "d", "d", "r", "e", "s", "s", " ", "b", "a", "r">>}

is_likely_browser_address_bar_candidate(automation_id, control_name) ==
    \/ /\ IsSome(automation_id)
       /\ \E marker \in AutomationIdMarkers :
              Contains(ToLowercase(Unwrap(automation_id)), marker)
    \/ /\ IsSome(control_name)
       /\ \E marker \in ControlNameMarkers :
              Contains(ToLowercase(Unwrap(control_name)), marker)

\* bstr_to_non_empty_focus_text of a property read that may have failed
BstrProperty(raw_bstr) ==
    IF raw_bstr = None THEN None
    ELSE normalize_non_empty_focus_text(Unwrap(raw_bstr))

extract_normalized_origin_from_edit_control(edit_control_element) ==
    IF ~edit_control_element.has_value_pattern THEN None
    ELSE IF BstrProperty(edit_control_element.current_value) = None THEN None
    ELSE normalize_browser_document_origin(
             Unwrap(BstrProperty(edit_control_element.current_value)))

\* The edit controls at which the loop would return an origin
AddressBarsWithOrigin(os) ==
    {i \in 1..Len(os.edit_controls) :
        /\ is_likely_browser_address_bar_candidate(
               BstrProperty(os.edit_controls[i].automation_id),
               BstrProperty(os.edit_controls[i].name))
        /\ IsSome(extract_normalized_origin_from_edit_control(os.edit_controls[i]))}

extract_browser_document_origin_from_uia(os) ==
    IF ~os.ui_automation_available THEN None
    ELSE IF AddressBarsWithOrigin(os) = {} THEN None
    ELSE extract_normalized_origin_from_edit_control(
             os.edit_controls[MinIndex(AddressBarsWithOrigin(os))])

\* focused_application.as_ref().and_then(supported_browser_from_application_name)
WindowsSupportedBrowser(focused_application) ==
    IF focused_application = None THEN None
    ELSE supported_browser_from_application_name(
             Unwrap(focused_application).display_name)

\* The closure that builds focused_browser_tab
WindowsFocusedBrowserTab(supported_browser, browser_tab_title, browser_document_origin) ==
    IF supported_browser = None THEN None
    ELSE IF browser_tab_title = None /\ browser_document_origin = None THEN None
    ELSE Some(FocusedBrowserTab(browser_tab_title, browser_document_origin,
                                Some(display_name(Unwrap(supported_browser)))))

\* windows::get_current_active_app_context
windows_get_current_active_app_context(os) ==
    LET window_title == get_window_title(os)
        process_path == os.process_path
        focused_application ==
            IF process_path = None THEN None
            ELSE Some(FocusedApplication(
                          get_application_display_name(Unwrap(process_path)),
                          None, process_path))
        focused_window == IF window_title = None THEN None
                          ELSE Some(FocusedWindow(Unwrap(window_title)))
        supported_browser == WindowsSupportedBrowser(focused_application)
        browser_tab_title ==
            IF supported_browser = None THEN None
            ELSE infer_browser_tab_title_from_window_title(
                     window_title, display_name(Unwrap(supported_browser)))
        browser_document_origin ==
            IF supported_browser = None THEN None
            ELSE extract_browser_document_origin_from_uia(os)
        focused_browser_tab ==
            WindowsFocusedBrowserTab(supported_browser, browser_tab_title,
                                     browser_document_origin)
        event_source == IF FocusedBrowserOriginIsPresent(focused_browser_tab)
                        THEN "Uia" ELSE "Polling"
        confidence_level ==
            determine_focus_confidence_level(
                IsSome(focused_window), IsSome(focused_browser_tab),
                FocusedBrowserOriginIsPresent(focused_browser_tab))
    IN  IF ~os.foreground_window
        THEN ActiveAppContextSnapshot(None, None, None, "Polling", "Low", CapturedAt)
        ELSE ActiveAppContextSnapshot(focused_application, focused_window,
                                      focused_browser_tab, event_source,
                                      confidence_level, CapturedAt)

\* mod.rs, get_current_active_app_context on any other platform
unsupported_get_current_active_app_context ==
    ActiveAppContextSnapshot(None, None, None, "Unknown", "Low", CapturedAt)

-----------------------------------------------------------------------------
(* The capture applied to what the system reports *)

MacFrontmostApplications ==
    {None,
     Some([localized_name |-> Some(<<"S", "a", "f", "a", "r", "i">>), bundle_identifier |-> Some(<<"c", "o", "m", ".", "a", "p", "p", "l", "e", ".", "S", "a", "f", "a", "r", "i">>), process_identifier |-> 1]),
     Some([localized_name |-> Some(<<"N", "o", "t", "e", "s">>), bundle_identifier |-> Some(<<"c", "o", "m", ".", "a", "p", "p", "l", "e", ".", "N", "o", "t", "e", "s">>), process_identifier |-> 1]),
     Some([localized_name |-> None, bundle_identifier |-> None, process_identifier |-> 1]),
     Some([localized_name |-> Some(<<"S", "a", "f", "a", "r", "i">>), bundle_identifier |-> None, process_identifier |-> 1]),
     Some([localized_name |-> Some(<<"G", "o", "o", "g", "l", "e", " ", "C", "h", "r", "o", "m", "e">>), bundle_identifier |-> Some(<<"c", "o", "m", ".", "g", "o", "o", "g", "l", "e", ".", "C", "h", "r", "o", "m", "e">>), process_identifier |-> 1])}

MacAxTitles ==
    {None,
     Some(<<" ", " ">>),
     Some(<<"D", "o", "c", "s", " ", "-", " ", "S", "a", "f", "a", "r", "i">>),
     Some(<<"N", "o", "t", "e", "s">>)}

MacAxDocuments ==
    {None,
     Some(<<"h", "t", "t", "p", "s", ":", "/", "/", "x", ".", "i", "o", "/", "p">>),
     Some(<<"x", ".", "i", "o">>),
     Some(<<"n", "o", "t", "e", "s">>)}

MacWindowLists ==
    {<<>>,
     <<[owner_pid |-> 1, layer |-> 0, name |-> Some(<<"D", "o", "c", "s", " ", "-", " ", "S", "a", "f", "a", "r", "i">>)]>>,
     <<[owner_pid |-> 2, layer |-> 0, name |-> Some(<<"O", "t", "h", "e", "r">>)], [owner_pid |-> 1, layer |-> 0, name |-> Some(<<"M", "a", "i", "l", " ", "-", " ", "G", "o", "o", "g", "l", "e", " ", "C", "h", "r", "o", "m", "e">>)]>>,
     <<[owner_pid |-> 1, layer |-> 3, name |-> Some(<<"M", "e", "n", "u">>)], [owner_pid |-> 1, layer |-> 0, name |-> None]>>}

MacOsFocus ==
    [frontmost_application : MacFrontmostApplications,
     accessibility_trusted : BOOLEAN,
     focused_window_element : BOOLEAN,
     ax_title : MacAxTitles,
     ax_document : MacAxDocuments,
     window_list : MacWindowLists]

WindowsWindowTexts ==
    {<<>>,
     <<" ", " ">>,
     <<"D", "o", "c", "s", " ", "-", " ", "G", "o", "o", "g", "l", "e", " ", "C", "h", "r", "o", "m", "e">>,
     <<"N", "o", "t", "e", "s">>}

WindowsProcessPaths ==
    {None,
     Some(<<"C", ":", "\\", "A", "p", "p", "s", "\\", "c", "h", "r", "o", "m", "e", ".", "e", "x", "e">>),
     Some(<<"C", ":", "\\", "A", "p", "p", "s", "\\", "N", "o", "t", "e", "p", "a", "d", ".", "e", "x", "e">>),
     Some(<<"C", ":", "\\", "A", "p", "p", "s", "\\", "M", "S", "E", "D", "G", "E", ".", "E", "X", "E">>)}

WindowsEditControls ==
    {<<>>,
     <<[automation_id |-> Some(<<"o", "m", "n", "i", "b", "o", "x">>), name |-> None, has_value_pattern |-> TRUE, current_value |-> Some(<<"h", "t", "t", "p", "s", ":", "/", "/", "x", ".", "i", "o", "/", "p">>)]>>,
     <<[automation_id |-> None, name |-> Some(<<"F", "i", "n", "d">>), has_value_pattern |-> TRUE, current_value |-> Some(<<"x", ".", "i", "o">>)], [automation_id |-> None, name |-> Some(<<"A", "d", "d", "r", "e", "s", "s", " ", "a", "n", "d", " ", "s", "e", "a", "r", "c", "h", " ", "b", "a", "r">>), has_value_pattern |-> FALSE, current_value |-> None]>>,
     <<[automation_id |-> Some(<<"u", "r", "l", "b", "a", "r">>), name |-> None, has_value_pattern |-> TRUE, current_value |-> Some(<<"s", "e", "a", "r", "c", "h", " ", "t", "e", "r", "m", "s">>)]>>}

WindowsOsFocus ==
    [foreground_window : BOOLEAN,
     window_text : WindowsWindowTexts,
     process_path : WindowsProcessPaths,
     ui_automation_available : BOOLEAN,
     edit_controls : WindowsEditControls]

InitCapture ==
    /\ focus_watcher_state = AwaitingInitialEmission
    /\ should_stop = FALSE
    /\ pc = "check"
    /\ now = 0
    /\ debounce_window = DebounceWindowMs
    /\ emission_candidate = None
    /\ ticks = 0
    /\ stop_checks = 0
    /\ polls = <<>>
    /\ emitted = <<>>
    /\ ProjInit
    /\ MarshalInit
    /\ LifecycleInit
    /\ \/ platform = "macos" /\ os_focus \in MacOsFocus
       \/ platform = "windows" /\ os_focus \in WindowsOsFocus
       \/ platform = "other" /\ os_focus = None
    /\ captured_snapshot = None
    /\ SharedIdle
    /\ MuteIdle
    /\ HistoryIdle
    /\ ShortcutIdle

\* What a capture leaves alone
CaptureFrame ==
    /\ UNCHANGED <<platform, os_focus>>
    /\ UNCHANGED <<watcher_vars, proj_vars, marshal_vars, lifecycle_vars>>
    /\ UNCHANGED <<shared_vars, mute_vars, history_vars, shortcut_vars>>

CaptureMacos ==
    /\ platform = "macos"
    /\ captured_snapshot = None
    /\ captured_snapshot' = Some(macos_get_current_active_app_context(os_focus))
    /\ CaptureFrame

CaptureWindows ==
    /\ platform = "windows"
    /\ captured_snapshot = None
    /\ captured_snapshot' = Some(windows_get_current_active_app_context(os_focus))
    /\ CaptureFrame

CaptureUnsupported ==
    /\ platform = "other"
    /\ captured_snapshot = None
    /\ captured_snapshot' = Some(unsupported_get_current_active_app_context)
    /\ CaptureFrame

NextCapture ==
    \/ CaptureMacos
    \/ CaptureWindows
    \/ CaptureUnsupported

SpecCapture == InitCapture /\ [][NextCapture]_vars

-----------------------------------------------------------------------------
(* The pure functions of shared.rs applied to inputs drawn from small sets:  *)
(* a raw document URL, a window title with a browser name, and the three     *)
(* presence flags of a capture.                                               *)

\* The parts of an absolute URL scheme://host[:port][/path][?q][#f]
AbsoluteUrlParts ==
    [scheme : {<<"h", "t", "t", "p", "s">>, <<"a">>},
     host : {<<"x", ".", "i", "o">>, <<"h">>},
     port : {<<>>, <<":", "8">>},
     path : {<<>>, <<"/", "p">>},
     query : {<<>>, <<"?", "q">>},
     fragment : {<<>>, <<"#", "f">>}]

\* The URL text made of the parts
ComposeUrl(parts) ==
    parts.scheme \o <<":", "/", "/">> \o parts.host \o parts.port \o parts.path \o parts.query \o parts.fragment

AbsoluteUrls == {ComposeUrl(parts) : parts \in AbsoluteUrlParts}

\* Address-bar texts without a scheme separator
SchemeLessTexts ==
    {<<"x", ".", "i", "o">>,
     <<"x", ".", "i", "o", "/", "p", "?", "q">>,
     <<"x", ".", "i", "o", ":", "8", "/", "p", "#", "f">>,
     <<"l", "o", "c", "a", "l", "h", "o", "s", "t">>,
     <<"L", "o", "c", "a", "l", "H", "o", "s", "t", ":", "3">>,
     <<"h">>,
     <<"h", "/", "p">>,
     <<"1", ".", "2", ".", "3", ".", "4">>,
     <<":", ":", "1">>,
     <<"h", "o", "w", " ", "t", "o">>,
     <<"x", ".", "i", "o", "/", "a", " ", "b">>,
     <<" ", "x", ".", "i", "o", " ">>,
     <<"\t", "x", ".", "i", "o", "/", "p">>,
     <<>>,
     <<" ", " ">>,
     <<"/", "p">>,
     <<"?", "q">>,
     <<"a", ":", "8">>}

\* Texts with a scheme separator and an empty scheme, remainder or authority
MalformedAbsoluteUrls ==
    {<<"a", ".", "b", ":", "/", "/">>,
     <<"a", ".", "b", ":", "/", "/", "/", "x">>,
     <<":", "/", "/", "x", ".", "i", "o">>,
     <<"a", ":", "/", "/">>,
     <<"l", "o", "c", "a", "l", "h", "o", "s", "t", ":", "/", "/", "?", "q">>}

RawDocumentUrls == AbsoluteUrls \cup SchemeLessTexts \cup MalformedAbsoluteUrls

WindowTitles ==
    {None,
     Some(<<>>),
     Some(<<" ", " ">>),
     Some(<<"P", "l", "a", "n", " ", "-", " ", "G", "o", "o", "g", "l", "e", " ", "C", "h", "r", "o", "m", "e">>),
     Some(<<"P", "l", "a", "n">>),
     Some(<<" ", "-", " ", "G", "o", "o", "g", "l", "e", " ", "C", "h", "r", "o", "m", "e">>),
     Some(<<"P", "l", "a", "n", " ", " ", "-", " ", "G", "o", "o", "g", "l", "e", " ", "C", "h", "r", "o", "m", "e", " ">>),
     Some(<<"P", "l", "a", "n", " ", "em-dash", " ", "G", "o", "o", "g", "l", "e", " ", "C", "h", "r", "o", "m", "e">>),
     Some(<<"P", "l", "a", "n", " ", "a-circumflex", "euro-sign", "right-double-quote", " ", "G", "o", "o", "g", "l", "e", " ", "C", "h", "r", "o", "m", "e">>),
     Some(<<"P", "l", "a", "n", " ", "-", " ", "S", "a", "f", "a", "r", "i">>)}

BrowserNames == {display_name("GoogleChrome"), display_name("Safari")}

PresenceFlags ==
    [focused_window : BOOLEAN, focused_browser_tab : BOOLEAN, focused_browser_origin : BOOLEAN]

\* The watcher has not run
WatcherIdle ==
    /\ focus_watcher_state = AwaitingInitialEmission
    /\ should_stop = FALSE
    /\ pc = "check"
    /\ now = 0
    /\ debounce_window = DebounceWindowMs
    /\ emission_candidate = None
    /\ ticks = 0
    /\ stop_checks = 0
    /\ polls = <<>>
    /\ emitted = <<>>

InitShared ==
    /\ WatcherIdle
    /\ ProjInit
    /\ MarshalInit
    /\ LifecycleInit
    /\ CaptureIdle
    /\ MuteIdle
    /\ HistoryIdle
    /\ ShortcutIdle
    /\ origin_result = None
    /\ tab_title_result = None
    /\ confidence_result = None
    /\ \/ /\ url_input \in RawDocumentUrls
          /\ title_input = None
          /\ browser_input = <<>>
          /\ presence_input \in {[focused_window |-> FALSE, focused_browser_tab |-> FALSE, focused_browser_origin |-> FALSE]}
       \/ /\ url_input = <<>>
          /\ title_input \in WindowTitles
          /\ browser_input \in BrowserNames
          /\ presence_input \in {[focused_window |-> FALSE, focused_browser_tab |-> FALSE, focused_browser_origin |-> FALSE]}
       \/ /\ url_input = <<>>
          /\ title_input = None
          /\ browser_input = <<>>
          /\ presence_input \in PresenceFlags

\* What an application of a shared function leaves alone
SharedFrame ==
    /\ UNCHANGED <<url_input, title_input, browser_input>>
    /\ UNCHANGED <<watcher_vars, proj_vars, marshal_vars, lifecycle_vars, capture_vars, mute_vars, history_vars, shortcut_vars>>

NormalizeOrigin ==
    /\ origin_result = None
    /\ origin_result' = Some(normalize_browser_document_origin(url_input))
    /\ UNCHANGED <<tab_title_result, presence_input, confidence_result>>
    /\ SharedFrame

InferTabTitle ==
    /\ tab_title_result = None
    /\ browser_input # <<>>
    /\ tab_title_result' = Some(infer_browser_tab_title_from_window_title(title_input, browser_input))
    /\ UNCHANGED <<origin_result, presence_input, confidence_result>>
    /\ SharedFrame

DetermineConfidence ==
    /\ confidence_result = None
    /\ confidence_result' = Some(determine_focus_confidence_level(presence_input.focused_window, presence_input.focused_browser_tab, presence_input.focused_browser_origin))
    /\ UNCHANGED <<origin_result, tab_title_result, presence_input>>
    /\ SharedFrame

\* A later capture populates one more field and the level is determined anew
PopulateField(field) ==
    /\ confidence_result # None
    /\ ~presence_input[field]
    /\ presence_input' = [presence_input EXCEPT ![field] = TRUE]
    /\ confidence_result' = Some(determine_focus_confidence_level(presence_input'.focused_window, presence_input'.focused_browser_tab, presence_input'.focused_browser_origin))
    /\ UNCHANGED <<origin_result, tab_title_result>>
    /\ SharedFrame

NextShared ==
    \/ NormalizeOrigin
    \/ InferTabTitle
    \/ DetermineConfidence
    \/ \E field \in {"focused_window", "focused_browser_tab", "focused_browser_origin"} : PopulateField(field)

SpecShared == InitShared /\ [][NextShared]_vars

-----------------------------------------------------------------------------
(* audio_mute: the AudioMuteManager over a SystemAudioControl whose calls    *)
(* can fail.  A set_muted call that fails leaves the audio as it was.        *)

MaxMuteCalls == 4

NotMuting == "NotMuting"
MutedByUs == "MutedByUs"
AudioWasAlreadyMutedByUser == "AudioWasAlreadyMutedByUser"

\* MuteTransitionAction
NoOp == <<"NoOp">>
SetMuted(muted) == <<"SetMuted", muted>>

MuteTransitionDecision(next_state, action) ==
    [next_state |-> next_state, action |-> action]

decide_mute_transition(current_mute_state, audio_is_currently_muted) ==
    IF current_mute_state = NotMuting
    THEN IF audio_is_currently_muted
         THEN MuteTransitionDecision(AudioWasAlreadyMutedByUser, NoOp)
         ELSE MuteTransitionDecision(MutedByUs, SetMuted(TRUE))
    ELSE MuteTransitionDecision(current_mute_state, NoOp)

\* The same, unmuting also what the user had muted
decide_unmute_transition_always_unmutes(current_mute_state) ==
    IF current_mute_state = NotMuting
    THEN MuteTransitionDecision(NotMuting, NoOp)
    ELSE MuteTransitionDecision(NotMuting, SetMuted(FALSE))

decide_unmute_transition(current_mute_state) ==
    IF current_mute_state = MutedByUs
    THEN MuteTransitionDecision(NotMuting, SetMuted(FALSE))
    ELSE MuteTransitionDecision(NotMuting, NoOp)

\* controller.is_muted().unwrap_or(false)
IsMutedOrFalse(is_muted_succeeds) ==
    IF is_muted_succeeds THEN audio_is_muted ELSE FALSE

\* The set_muted calls the decision issues
IssuedCalls(transition_decision) ==
    IF transition_decision.action = NoOp THEN <<>>
    ELSE <<transition_decision.action[2]>>

\* The same, storing the next state although set_muted failed
apply_mute_transition_decision_ignoring_failure(state, transition_decision, set_muted_succeeds) ==
    IF transition_decision.action = NoOp
    THEN [state |-> transition_decision.next_state, audio |-> audio_is_muted, result |-> "Ok"]
    ELSE IF set_muted_succeeds
    THEN [state |-> transition_decision.next_state, audio |-> transition_decision.action[2], result |-> "Ok"]
    ELSE [state |-> transition_decision.next_state, audio |-> audio_is_muted, result |-> "SetPropertyFailed"]

\* apply_mute_transition_decision: the manager and the audio after it, and
\* what it returns
apply_mute_transition_decision(state, transition_decision, set_muted_succeeds) ==
    IF transition_decision.action = NoOp
    THEN [state |-> transition_decision.next_state, audio |-> audio_is_muted, result |-> "Ok"]
    ELSE IF set_muted_succeeds
    THEN [state |-> transition_decision.next_state, audio |-> transition_decision.action[2], result |-> "Ok"]
    ELSE [state |-> state, audio |-> audio_is_muted, result |-> "SetPropertyFailed"]

\* One call on the manager, as the history keeps it
MuteOperation(operation, is_muted_result, issued, applied) ==
    [operation |-> operation,
     state_before |-> mute_state,
     audio_before |-> audio_is_muted,
     is_muted_result |-> is_muted_result,
     issued |-> issued,
     result |-> applied.result,
     state_after |-> applied.state,
     audio_after |-> applied.audio]

MuteFrame ==
    UNCHANGED <<watcher_vars, proj_vars, marshal_vars, lifecycle_vars, capture_vars, shared_vars, history_vars, shortcut_vars>>

\* AudioMuteManager::mute while the manager is already muting
MuteWhileMuting ==
    /\ ~manager_dropped
    /\ Len(mute_operations) < MaxMuteCalls
    /\ mute_state # NotMuting
    /\ mute_operations' = Append(mute_operations,
           MuteOperation("mute", "NotCalled", <<>>,
                         [state |-> mute_state, audio |-> audio_is_muted, result |-> "Ok"]))
    /\ UNCHANGED <<mute_state, audio_is_muted, set_muted_calls, manager_dropped>>
    /\ MuteFrame

\* AudioMuteManager::mute from NotMuting
Mute(is_muted_succeeds, set_muted_succeeds) ==
    /\ ~manager_dropped
    /\ Len(mute_operations) < MaxMuteCalls
    /\ mute_state = NotMuting
    /\ LET audio_is_already_muted == IsMutedOrFalse(is_muted_succeeds)
           transition_decision == decide_mute_transition(mute_state, audio_is_already_muted)
           applied == apply_mute_transition_decision(mute_state, transition_decision, set_muted_succeeds)
       IN  /\ mute_state' = applied.state
           /\ audio_is_muted' = applied.audio
           /\ set_muted_calls' = set_muted_calls \o IssuedCalls(transition_decision)
           /\ mute_operations' = Append(mute_operations,
                  MuteOperation("mute", IF is_muted_succeeds THEN "Ok" ELSE "GetPropertyFailed",
                                IssuedCalls(transition_decision), applied))
    /\ UNCHANGED manager_dropped
    /\ MuteFrame

\* AudioMuteManager::unmute
Unmute(set_muted_succeeds) ==
    /\ ~manager_dropped
    /\ Len(mute_operations) < MaxMuteCalls
    /\ LET transition_decision == decide_unmute_transition(mute_state)
           applied == apply_mute_transition_decision(mute_state, transition_decision, set_muted_succeeds)
       IN  /\ mute_state' = applied.state
           /\ audio_is_muted' = applied.audio
           /\ set_muted_calls' = set_muted_calls \o IssuedCalls(transition_decision)
           /\ mute_operations' = Append(mute_operations,
                  MuteOperation("unmute", "NotCalled", IssuedCalls(transition_decision), applied))
    /\ UNCHANGED manager_dropped
    /\ MuteFrame

\* A drop that never unmutes
DropManagerWithoutUnmute(set_muted_succeeds) ==
    /\ ~manager_dropped
    /\ manager_dropped' = TRUE
    /\ mute_operations' = Append(mute_operations,
           MuteOperation("drop", "NotCalled", <<>>,
                         [state |-> mute_state, audio |-> audio_is_muted, result |-> "Ok"]))
    /\ UNCHANGED <<mute_state, audio_is_muted, set_muted_calls>>
    /\ MuteFrame

\* Drop for AudioMuteManager: unmute, its result ignored, if the state is
\* MutedByUs
DropManager(set_muted_succeeds) ==
    /\ ~manager_dropped
    /\ manager_dropped' = TRUE
    /\ LET transition_decision ==
               IF mute_state = MutedByUs THEN decide_unmute_transition(mute_state)
               ELSE MuteTransitionDecision(mute_state, NoOp)
           applied == apply_mute_transition_decision(mute_state, transition_decision, set_muted_succeeds)
       IN  /\ mute_state' = applied.state
           /\ audio_is_muted' = applied.audio
           /\ set_muted_calls' = set_muted_calls \o IssuedCalls(transition_decision)
           /\ mute_operations' = Append(mute_operations,
                  MuteOperation("drop", "NotCalled", IssuedCalls(transition_decision), applied))
    /\ MuteFrame

InitMute ==
    /\ WatcherIdle
    /\ ProjInit
    /\ MarshalInit
    /\ LifecycleInit
    /\ CaptureIdle
    /\ SharedIdle
    /\ HistoryIdle
    /\ ShortcutIdle
    /\ mute_state = NotMuting
    /\ audio_is_muted \in BOOLEAN
    /\ set_muted_calls = <<>>
    /\ mute_operations = <<>>
    /\ manager_dropped = FALSE

NextMute ==
    \/ MuteWhileMuting
    \/ \E is_muted_succeeds \in BOOLEAN, set_muted_succeeds \in BOOLEAN : Mute(is_muted_succeeds, set_muted_succeeds)
    \/ \E set_muted_succeeds \in BOOLEAN : Unmute(set_muted_succeeds)
    \/ \E set_muted_succeeds \in BOOLEAN : DropManager(set_muted_succeeds)

SpecMute == InitMute /\ [][NextMute]_vars

-----------------------------------------------------------------------------
(* history.rs: the HistoryStorage over history.json.  The file holds what    *)
(* serde_json writes: a JSON value is <<"null">>, <<"string", s>>,           *)
(* <<"array", items>> or <<"object", fields>>, where fields is a function    *)
(* from the keys present to their values.  An id is the number of the Uuid   *)
(* drawn, a timestamp the number of the call.                                *)

MAX_HISTORY_ENTRIES == 500

MaxHistoryCalls == 3

JsonNull == <<"null">>

JsonString(s) == <<"string", s>>

JsonArray(items) == <<"array", items>>

JsonObject(fields) == <<"object", fields>>

\* A key of a JSON object is present
HasField(json, name) == name \in DOMAIN json[2]

\* serde: an Option<String> is null or the string
serialize_option_string(option) ==
    IF option = None THEN JsonNull ELSE JsonString(Unwrap(option))

\* serde: a missing or null Option<String> is None
deserialize_option_string(json, name) ==
    IF ~HasField(json, name) \/ json[2][name] = JsonNull THEN None
    ELSE Some(json[2][name][2])

\* #[serde(rename_all = "snake_case")] of FocusEventSource
serialize_focus_event_source(event_source) ==
    CASE event_source = "Polling" -> JsonString("polling")
      [] event_source = "Accessibility" -> JsonString("accessibility")
      [] event_source = "Uia" -> JsonString("uia")
      [] event_source = "Unknown" -> JsonString("unknown")

\* The variant a string names, if any
deserialize_focus_event_source(json) ==
    CASE json = JsonString("polling") -> Some("Polling")
      [] json = JsonString("accessibility") -> Some("Accessibility")
      [] json = JsonString("uia") -> Some("Uia")
      [] json = JsonString("unknown") -> Some("Unknown")
      [] OTHER -> None

\* #[serde(rename_all = "snake_case")] of FocusConfidenceLevel
serialize_focus_confidence_level(confidence_level) ==
    CASE confidence_level = "High" -> JsonString("high")
      [] confidence_level = "Medium" -> JsonString("medium")
      [] confidence_level = "Low" -> JsonString("low")

deserialize_focus_confidence_level(json) ==
    CASE json = JsonString("high") -> Some("High")
      [] json = JsonString("medium") -> Some("Medium")
      [] json = JsonString("low") -> Some("Low")
      [] OTHER -> None

serialize_focused_application(application) ==
    JsonObject([display_name |-> JsonString(application.display_name),
                bundle_id |-> serialize_option_string(application.bundle_id),
                process_path |-> serialize_option_string(application.process_path)])

serialize_focused_window(window) ==
    JsonObject([title |-> JsonString(window.title)])

serialize_focused_browser_tab(tab) ==
    JsonObject([title |-> serialize_option_string(tab.title),
                origin |-> serialize_option_string(tab.origin),
                browser |-> serialize_option_string(tab.browser)])

\* Serialize of ActiveAppContextSnapshot
serialize_snapshot(snapshot) ==
    JsonObject(
        [focused_application |->
             IF snapshot.focused_application = None THEN JsonNull
             ELSE serialize_focused_application(Unwrap(snapshot.focused_application)),
         focused_window |->
             IF snapshot.focused_window = None THEN JsonNull
             ELSE serialize_focused_window(Unwrap(snapshot.focused_window)),
         focused_browser_tab |->
             IF snapshot.focused_browser_tab = None THEN JsonNull
             ELSE serialize_focused_browser_tab(Unwrap(snapshot.focused_browser_tab)),
         event_source |-> serialize_focus_event_source(snapshot.event_source),
         confidence_level |-> serialize_focus_confidence_level(snapshot.confidence_level),
         captured_at |-> JsonString(snapshot.captured_at)])

\* A field that is an Option of a struct is missing or null
IsAbsent(json, name) == ~HasField(json, name) \/ json[2][name] = JsonNull

\* Deserialize of ActiveAppContextSnapshot: None when a required field is
\* missing or names no variant
deserialize_snapshot(json) ==
    IF \/ ~HasField(json, "event_source")
       \/ ~HasField(json, "confidence_level")
       \/ ~HasField(json, "captured_at")
    THEN None
    ELSE IF \/ deserialize_focus_event_source(json[2]["event_source"]) = None
            \/ deserialize_focus_confidence_level(json[2]["confidence_level"]) = None
    THEN None
    ELSE Some(ActiveAppContextSnapshot(
             IF IsAbsent(json, "focused_application") THEN None
             ELSE Some(FocusedApplication(
                      json[2]["focused_application"][2]["display_name"][2],
                      deserialize_option_string(json[2]["focused_application"], "bundle_id"),
                      deserialize_option_string(json[2]["focused_application"], "process_path"))),
             IF IsAbsent(json, "focused_window") THEN None
             ELSE Some(FocusedWindow(json[2]["focused_window"][2]["title"][2])),
             IF IsAbsent(json, "focused_browser_tab") THEN None
             ELSE Some(FocusedBrowserTab(
                      deserialize_option_string(json[2]["focused_browser_tab"], "title"),
                      deserialize_option_string(json[2]["focused_browser_tab"], "origin"),
                      deserialize_option_string(json[2]["focused_browser_tab"], "browser"))),
             Unwrap(deserialize_focus_event_source(json[2]["event_source"])),
             Unwrap(deserialize_focus_confidence_level(json[2]["confidence_level"])),
             json[2]["captured_at"][2]))

HistoryEntry(id, timestamp, text, raw_text, active_app_context) ==
    [id |-> id, timestamp |-> timestamp, text |-> text, raw_text |-> raw_text,
     active_app_context |-> active_app_context]

\* An entry built without the context it was given
HistoryEntry_new_dropping_context(id, timestamp, text, raw_text, active_app_context) ==
    HistoryEntry(id, timestamp, text, raw_text, None)

\* HistoryEntry::new, with the Uuid and the clock reading it draws
HistoryEntry_new(id, timestamp, text, raw_text, active_app_context) ==
    HistoryEntry(id, timestamp, text, raw_text, active_app_context)

\* Serialize of HistoryEntry: every field is written
serialize_history_entry(entry) ==
    JsonObject([id |-> JsonString(entry.id),
                timestamp |-> JsonString(entry.timestamp),
                text |-> JsonString(entry.text),
                raw_text |-> JsonString(entry.raw_text),
                active_app_context |->
                    IF entry.active_app_context = None THEN JsonNull
                    ELSE serialize_snapshot(Unwrap(entry.active_app_context))])

\* The record cannot be read as a HistoryEntry
EntryIsMalformed(json) ==
    \/ ~HasField(json, "id")
    \/ ~HasField(json, "timestamp")
    \/ ~HasField(json, "text")
    \/ /\ ~IsAbsent(json, "active_app_context")
       /\ deserialize_snapshot(json[2]["active_app_context"]) = None

\* Deserialize of HistoryEntry: raw_text and active_app_context are
\* #[serde(default)]
deserialize_history_entry(json) ==
    HistoryEntry(json[2]["id"][2], json[2]["timestamp"][2], json[2]["text"][2],
                 IF HasField(json, "raw_text") THEN json[2]["raw_text"][2] ELSE "",
                 IF IsAbsent(json, "active_app_context") THEN None
                 ELSE deserialize_snapshot(json[2]["active_app_context"]))

\* serde_json::to_string_pretty of HistoryData
serialize_history_data(entries) ==
    JsonObject([entries |->
        JsonArray([i \in 1..Len(entries) |-> serialize_history_entry(entries[i])])])

\* A file that is not JSON
CorruptFile == <<"corrupt">>

\* HistoryStorage::load_from_file: None is Err
load_from_file(file) ==
    IF file = None THEN None
    ELSE IF Unwrap(file) = CorruptFile THEN None
    ELSE IF ~HasField(Unwrap(file), "entries") THEN None
    ELSE IF \E i \in 1..Len(Unwrap(file)[2]["entries"][2]) : EntryIsMalformed(Unwrap(file)[2]["entries"][2][i]) THEN None
    ELSE Some([i \in 1..Len(Unwrap(file)[2]["entries"][2]) |-> deserialize_history_entry(Unwrap(file)[2]["entries"][2][i])])

\* HistoryStorage::save: the file is replaced atomically, or left as it was
save(entries, file, save_succeeds) ==
    IF save_succeeds THEN Some(serialize_history_data(entries)) ELSE file

\* Vec::truncate and Iterator::take
Take(entries, count) ==
    IF Len(entries) > count THEN SubSeq(entries, 1, count) ELSE entries

\* A record written before raw_text and active_app_context existed
LegacyRecord ==
    JsonObject([id |-> JsonString(0), timestamp |-> JsonString(0),
                text |-> JsonString("legacy entry")])

\* A record written by this version with no context
RecordWithoutContext ==
    serialize_history_entry(HistoryEntry(0, 0, "entry", "raw entry", None))

\* What history.json can hold when the application starts
StartupFiles ==
    {None,
     Some(CorruptFile),
     Some(JsonObject([entries |-> JsonArray(<<LegacyRecord>>)])),
     Some(JsonObject([entries |-> JsonArray(<<RecordWithoutContext>>)]))}

HistoryTexts == {"hello"}

HistoryRawTexts == {"", "hello raw"}

HistoryContexts ==
    {None, Some(CodeSnapshotLater), Some(TerminalSnapshot), Some(FallbackSnapshot)}

HistoryLimits == {None, Some(0), Some(1), Some(2)}

HistoryOk(value) == <<"Ok", value>>

HistoryErr == <<"Err">>

HistoryFrame ==
    UNCHANGED <<watcher_vars, proj_vars, marshal_vars, lifecycle_vars, capture_vars, shared_vars, mute_vars, shortcut_vars>>

\* HistoryStorage::new: what the file holds, or HistoryData::default()
HistoryStorage_new(file) ==
    IF load_from_file(file) = None THEN <<>> ELSE Unwrap(load_from_file(file))

\* The application is started again on the file it left
Restart ==
    /\ history_calls < MaxHistoryCalls
    /\ history_calls' = history_calls + 1
    /\ history_entries' = HistoryStorage_new(history_file)
    /\ history_result' = None
    /\ history_operation' = [operation |-> "new"]
    /\ UNCHANGED history_file
    /\ HistoryFrame

\* HistoryStorage::add_entry
add_entry(text, raw_text, active_app_context, save_succeeds) ==
    LET new_history_entry == HistoryEntry_new(history_calls + 1, history_calls + 1, text, raw_text, active_app_context)
        entries == Take(<<new_history_entry>> \o history_entries, MAX_HISTORY_ENTRIES)
    IN  /\ history_calls < MaxHistoryCalls
        /\ history_calls' = history_calls + 1
        /\ history_entries' = entries
        /\ history_file' = save(entries, history_file, save_succeeds)
        /\ history_result' = IF save_succeeds THEN HistoryOk(new_history_entry) ELSE HistoryErr
        /\ history_operation' = [operation |-> "add_entry",
                                 active_app_context |-> active_app_context,
                                 saved |-> save_succeeds]
        /\ HistoryFrame

\* HistoryStorage::get_all
get_all(limit) ==
    /\ history_calls < MaxHistoryCalls
    /\ history_calls' = history_calls + 1
    /\ history_result' = HistoryOk(IF limit = None THEN history_entries
                                   ELSE Take(history_entries, Unwrap(limit)))
    /\ history_operation' = [operation |-> "get_all", limit |-> limit]
    /\ UNCHANGED <<history_entries, history_file>>
    /\ HistoryFrame

\* HistoryStorage::clear
clear(save_succeeds) ==
    /\ history_calls < MaxHistoryCalls
    /\ history_calls' = history_calls + 1
    /\ history_entries' = <<>>
    /\ history_file' = save(<<>>, history_file, save_succeeds)
    /\ history_result' = IF save_succeeds THEN HistoryOk(<<>>) ELSE HistoryErr
    /\ history_operation' = [operation |-> "clear"]
    /\ HistoryFrame

InitHistory ==
    /\ WatcherIdle
    /\ ProjInit
    /\ MarshalInit
    /\ LifecycleInit
    /\ CaptureIdle
    /\ SharedIdle
    /\ MuteIdle
    /\ ShortcutIdle
    /\ history_file \in StartupFiles
    /\ history_entries = HistoryStorage_new(history_file)
    /\ history_result = None
    /\ history_operation = [operation |-> "new"]
    /\ history_calls = 0

NextHistory ==
    \/ Restart
    \/ \E text \in HistoryTexts, raw_text \in HistoryRawTexts, active_app_context \in HistoryContexts, save_succeeds \in BOOLEAN : add_entry(text, raw_text, active_app_context, save_succeeds)
    \/ \E limit \in HistoryLimits : get_all(limit)
    \/ \E save_succeeds \in BOOLEAN : clear(save_succeeds)

SpecHistory == InitHistory /\ [][NextHistory]_vars

-----------------------------------------------------------------------------
(* lib.rs: handle_shortcut_event, the state machine of the three hotkeys.    *)
(* The handler holds the mutex of AppState.shortcut_state for the whole      *)
(* transition, so events are handled one at a time.                          *)

MaxShortcutEvents == 6

ShortcutStates ==
    {"Idle", "PreparingToRecordViaToggle", "RecordingViaToggle",
     "RecordingViaHold", "WaitingForPasteKeyRelease"}

ShortcutEvents ==
    {"TogglePressed", "ToggleReleased", "HoldPressed", "HoldReleased",
     "PastePressed", "PasteReleased"}

\* start_recording: the calls it makes, in order
start_recording(sound_enabled, manager_is_present, auto_mute_audio) ==
    (IF sound_enabled THEN <<"play_sound(RecordingStart)">> ELSE <<>>)
    \o (IF auto_mute_audio /\ manager_is_present THEN <<"mute">> ELSE <<>>)
    \o <<"emit(recording-start)">>

\* stop_recording: the calls it makes, in order
stop_recording(sound_enabled, manager_is_present, auto_mute_audio) ==
    (IF auto_mute_audio /\ manager_is_present THEN <<"unmute">> ELSE <<>>)
    \o (IF sound_enabled THEN <<"play_sound(RecordingStop)">> ELSE <<>>)
    \o <<"emit(recording-stop)">>

\* What an arm of the match does besides giving the next state
ShortcutTransition(next_state, does) == [next_state |-> next_state, does |-> does]

\* Variant: releasing the hold key ends a toggle recording too
shortcut_transition_hold_release_stops_any(current_state, shortcut_event) ==
    CASE current_state = "Idle" /\ shortcut_event = "TogglePressed" ->
             ShortcutTransition("PreparingToRecordViaToggle", "prepare")
      [] current_state = "PreparingToRecordViaToggle" /\ shortcut_event = "ToggleReleased" ->
             ShortcutTransition("RecordingViaToggle", "start")
      [] current_state = "RecordingViaToggle" /\ shortcut_event = "TogglePressed" ->
             ShortcutTransition("RecordingViaToggle", "nothing")
      [] current_state = "RecordingViaToggle" /\ shortcut_event = "ToggleReleased" ->
             ShortcutTransition("Idle", "stop")
      [] current_state = "Idle" /\ shortcut_event = "HoldPressed" ->
             ShortcutTransition("RecordingViaHold", "start")
      [] current_state \in {"RecordingViaHold", "RecordingViaToggle"} /\ shortcut_event = "HoldReleased" ->
             ShortcutTransition("Idle", "stop")
      [] current_state = "RecordingViaHold" /\ shortcut_event = "HoldPressed" ->
             ShortcutTransition("RecordingViaHold", "nothing")
      [] current_state \in {"Idle", "WaitingForPasteKeyRelease"} /\ shortcut_event = "PastePressed" ->
             ShortcutTransition("WaitingForPasteKeyRelease", "nothing")
      [] current_state = "WaitingForPasteKeyRelease" /\ shortcut_event = "PasteReleased" ->
             ShortcutTransition("Idle", "paste")
      [] current_state = "PreparingToRecordViaToggle" /\ shortcut_event = "TogglePressed" ->
             ShortcutTransition("PreparingToRecordViaToggle", "nothing")
      [] OTHER -> ShortcutTransition(current_state, "nothing")

\* The match on (current state, event) of handle_shortcut_event
shortcut_transition(current_state, shortcut_event) ==
    CASE current_state = "Idle" /\ shortcut_event = "TogglePressed" ->
             ShortcutTransition("PreparingToRecordViaToggle", "prepare")
      [] current_state = "PreparingToRecordViaToggle" /\ shortcut_event = "ToggleReleased" ->
             ShortcutTransition("RecordingViaToggle", "start")
      [] current_state = "RecordingViaToggle" /\ shortcut_event = "TogglePressed" ->
             ShortcutTransition("RecordingViaToggle", "nothing")
      [] current_state = "RecordingViaToggle" /\ shortcut_event = "ToggleReleased" ->
             ShortcutTransition("Idle", "stop")
      [] current_state = "Idle" /\ shortcut_event = "HoldPressed" ->
             ShortcutTransition("RecordingViaHold", "start")
      [] current_state = "RecordingViaHold" /\ shortcut_event = "HoldReleased" ->
             ShortcutTransition("Idle", "stop")
      [] current_state = "RecordingViaHold" /\ shortcut_event = "HoldPressed" ->
             ShortcutTransition("RecordingViaHold", "nothing")
      [] current_state \in {"Idle", "WaitingForPasteKeyRelease"} /\ shortcut_event = "PastePressed" ->
             ShortcutTransition("WaitingForPasteKeyRelease", "nothing")
      [] current_state = "WaitingForPasteKeyRelease" /\ shortcut_event = "PasteReleased" ->
             ShortcutTransition("Idle", "paste")
      [] current_state = "PreparingToRecordViaToggle" /\ shortcut_event = "TogglePressed" ->
             ShortcutTransition("PreparingToRecordViaToggle", "nothing")
      [] OTHER -> ShortcutTransition(current_state, "nothing")

\* The calls the arm makes, in order
ShortcutCalls(does, sound_enabled, manager_is_present, auto_mute_audio) ==
    CASE does = "prepare" -> <<"emit(prepare-recording)">>
      [] does = "start" -> start_recording(sound_enabled, manager_is_present, auto_mute_audio)
      [] does = "stop" -> stop_recording(sound_enabled, manager_is_present, auto_mute_audio)
      [] does = "paste" -> <<"paste_last_transcription">>
      [] OTHER -> <<>>

\* The app.emit calls among the calls
EmitCalls(calls) ==
    SelectSeq(calls, LAMBDA call : call \in {"emit(prepare-recording)", "emit(recording-start)", "emit(recording-stop)"})

ShortcutFrame ==
    UNCHANGED <<watcher_vars, proj_vars, marshal_vars, lifecycle_vars, capture_vars, shared_vars, mute_vars, history_vars>>

\* handle_shortcut_event for a shortcut that matches a configured hotkey
handle_shortcut_event(shortcut_event, sound_enabled, manager_is_present, auto_mute_audio) ==
    LET transition == shortcut_transition(shortcut_state, shortcut_event)
        calls == ShortcutCalls(transition.does, sound_enabled, manager_is_present, auto_mute_audio)
    IN  /\ shortcut_events < MaxShortcutEvents
        /\ shortcut_events' = shortcut_events + 1
        /\ shortcut_state' = transition.next_state
        /\ shortcut_emitted' = shortcut_emitted \o EmitCalls(calls)
        /\ last_shortcut' = Some([state_before |-> shortcut_state,
                                  shortcut_event |-> Some(shortcut_event),
                                  calls |-> calls])
        /\ ShortcutFrame

\* handle_shortcut_event for a shortcut that matches no configured hotkey:
\* map_to_shortcut_event gives None and the handler returns
handle_unknown_shortcut ==
    /\ shortcut_events < MaxShortcutEvents
    /\ shortcut_events' = shortcut_events + 1
    /\ last_shortcut' = Some([state_before |-> shortcut_state,
                              shortcut_event |-> None, calls |-> <<>>])
    /\ UNCHANGED <<shortcut_state, shortcut_emitted>>
    /\ ShortcutFrame

InitShortcut ==
    /\ WatcherIdle
    /\ ProjInit
    /\ MarshalInit
    /\ LifecycleInit
    /\ CaptureIdle
    /\ SharedIdle
    /\ MuteIdle
    /\ HistoryIdle
    /\ shortcut_state = "Idle"
    /\ shortcut_emitted = <<>>
    /\ last_shortcut = None
    /\ shortcut_events = 0

NextShortcut ==
    \/ \E shortcut_event \in ShortcutEvents, sound_enabled \in BOOLEAN, manager_is_present \in BOOLEAN, auto_mute_audio \in BOOLEAN : handle_shortcut_event(shortcut_event, sound_enabled, manager_is_present, auto_mute_audio)
    \/ handle_unknown_shortcut

SpecShortcut == InitShortcut /\ [][NextShortcut]_vars

-----------------------------------------------------------------------------
(* ComparableActiveAppContext::from applied to two snapshots *)

ProjApplications ==
    {None,
     Some(FocusedApplication("Code", None, None)),
     Some(FocusedApplication("Code", Some("com.microsoft.VSCode"), None)),
     Some(FocusedApplication("Code", None, Some("/Applications/Code.app"))),
     Some(FocusedApplication("Terminal", None, None))}

ProjWindows == {None, Some(FocusedWindow("notes.md")), Some(FocusedWindow("shell"))}

ProjBrowserTabs ==
    {None,
     Some(FocusedBrowserTab(None, None, None)),
     Some(FocusedBrowserTab(Some("Pull Request"), None, None)),
     Some(FocusedBrowserTab(None, Some("https://example.com"), None)),
     Some(FocusedBrowserTab(Some("Pull Request"), Some("https://example.com"), None)),
     Some(FocusedBrowserTab(Some("Pull Request"), Some("https://example.com"),
                            Some("Google Chrome")))}

ProjSnapshots ==
    {ActiveAppContextSnapshot(application, window, tab, source, confidence, captured) :
        application \in ProjApplications, window \in ProjWindows,
        tab \in ProjBrowserTabs, source \in {"Polling", "Accessibility"},
        confidence \in {"High", "Low"},
        captured \in {"2026-01-01T00:00:00Z", "2026-01-01T00:01:00Z"}}

InitProj ==
    /\ focus_watcher_state = AwaitingInitialEmission
    /\ should_stop = FALSE
    /\ pc = "check"
    /\ now = 0
    /\ debounce_window = DebounceWindowMs
    /\ emission_candidate = None
    /\ ticks = 0
    /\ stop_checks = 0
    /\ polls = <<>>
    /\ emitted = <<>>
    /\ left_snapshot \in ProjSnapshots
    /\ right_snapshot \in ProjSnapshots
    /\ left_context = None
    /\ right_context = None
    /\ MarshalInit
    /\ LifecycleInit
    /\ CaptureIdle
    /\ SharedIdle
    /\ MuteIdle
    /\ HistoryIdle
    /\ ShortcutIdle

Project ==
    /\ left_context = None
    /\ left_context' = Some(ComparableActiveAppContext(left_snapshot))
    /\ right_context' = Some(ComparableActiveAppContext(right_snapshot))
    /\ UNCHANGED <<left_snapshot, right_snapshot>>
    /\ UNCHANGED <<watcher_vars, marshal_vars, lifecycle_vars, capture_vars, shared_vars, mute_vars, history_vars, shortcut_vars>>

NextProj == Project

SpecProj == InitProj /\ [][NextProj]_vars

-----------------------------------------------------------------------------
(* The five kept fields of a snapshot, read off the snapshot itself *)

KeptDisplayName(snapshot) ==
    IF snapshot.focused_application = None THEN None
    ELSE Some(snapshot.focused_application[1].display_name)

KeptWindowTitle(snapshot) ==
    IF snapshot.focused_window = None THEN None
    ELSE Some(snapshot.focused_window[1].title)

KeptTabTitle(snapshot) ==
    IF snapshot.focused_browser_tab = None THEN None
    ELSE snapshot.focused_browser_tab[1].title

KeptTabOrigin(snapshot) ==
    IF snapshot.focused_browser_tab = None THEN None
    ELSE snapshot.focused_browser_tab[1].origin

AgreeOnKeptFields(a, b) ==
    /\ KeptDisplayName(a) = KeptDisplayName(b)
    /\ KeptWindowTitle(a) = KeptWindowTitle(b)
    /\ KeptTabTitle(a) = KeptTabTitle(b)
    /\ KeptTabOrigin(a) = KeptTabOrigin(b)
    /\ a.confidence_level = b.confidence_level

\* C10: two snapshots have equal comparable contexts if and only if they agree
\* on application display name, window title, browser tab title, browser tab
\* origin and confidence level; captured_at, event source, bundle id, process
\* path and browser display name play no part.
C10_ComparableProjection ==
    IsSome(left_context) =>
        ((Unwrap(left_context) = Unwrap(right_context))
            <=> AgreeOnKeptFields(left_snapshot, right_snapshot))

\* Two snapshots that differ in every dropped field and project to the same
\* comparable context.
C10_Witness ==
    /\ IsSome(left_context)
    /\ Unwrap(left_context) = Unwrap(right_context)
    /\ left_snapshot.captured_at # right_snapshot.captured_at
    /\ left_snapshot.event_source # right_snapshot.event_source
    /\ left_snapshot.focused_application # right_snapshot.focused_application
    /\ left_snapshot.focused_browser_tab # right_snapshot.focused_browser_tab

-----------------------------------------------------------------------------
(* Reading the histories *)

\* The comparable context observed by the i-th processed poll
PolledContext(i) == ComparableActiveAppContext(polls[i].snapshot)

\* This step processes a poll
IsPollStep == Len(polls') = Len(polls) + 1

\* This step is the outcome of app.emit
IsEmitStep == pc = "emit" /\ pc' # "emit"

\* This step delivers an event to the subscribers
IsDelivery == Len(emitted') = Len(emitted) + 1

\* The first poll of the run of consecutive polls of one context that poll n
\* belongs to
RunStart(n) ==
    CHOOSE j \in 1..n :
        /\ \A i \in j..n : PolledContext(i) = PolledContext(n)
        /\ j = 1 \/ PolledContext(j - 1) # PolledContext(n)

\* An event was delivered at a tick from lo to hi
DeliveredWithin(lo, hi) ==
    \E k \in DOMAIN emitted : lo <= emitted[k].tick /\ emitted[k].tick <= hi

-----------------------------------------------------------------------------
(* Claims about the watcher loop (Spec) *)

C1_Step ==
    (/\ IsPollStep
     /\ focus_watcher_state.tag = "StableEmitted"
     /\ PolledContext(Len(polls))' = focus_watcher_state.emitted_context)
    => /\ focus_watcher_state' = focus_watcher_state
       /\ emission_candidate' = None
       /\ pc' # "emit"
       /\ emitted' = emitted

\* C1: in StableEmitted(ctx) a poll whose comparable context equals ctx yields
\* no emission candidate and leaves the state StableEmitted(ctx), so nothing
\* is emitted however often the same context is polled again.
C1_DuplicateSuppression == [][C1_Step]_vars

\* After one emission the same context was polled twice more, with another
\* captured_at, and nothing more was emitted.
C1_Witness ==
    /\ Len(emitted) = 1
    /\ Len(polls) >= emitted[1].tick + 2
    /\ \A i \in DOMAIN polls :
          polls[i].tick > emitted[1].tick =>
              PolledContext(i) = emitted[1].candidate_context
    /\ \E i \in DOMAIN polls :
          /\ polls[i].tick > emitted[1].tick
          /\ polls[i].snapshot.captured_at # emitted[1].candidate_snapshot.captured_at
    /\ focus_watcher_state = StableEmitted(emitted[1].candidate_context)
    /\ pc = "sleep"

C4_Step ==
    /\ IsEmitStep =>
          IF IsDelivery
          THEN focus_watcher_state' =
                   StableEmitted(Unwrap(emission_candidate).candidate_context)
          ELSE /\ focus_watcher_state' = focus_watcher_state
               /\ focus_watcher_state.tag = "DebouncingCandidate"
               /\ focus_watcher_state.candidate_context =
                      Unwrap(emission_candidate).candidate_context
    /\ (/\ IsPollStep
        /\ Len(polls) >= 1
        /\ IsSome(polls[Len(polls)].emission_candidate)
        /\ focus_watcher_state.tag = "DebouncingCandidate"
        /\ PolledContext(Len(polls))' = focus_watcher_state.candidate_context)
       => /\ IsSome(emission_candidate')
          /\ pc' = "emit"
          /\ focus_watcher_state'.tag = "DebouncingCandidate"
          /\ focus_watcher_state'.first_seen_at = focus_watcher_state.first_seen_at

\* C4: a delivered emission candidate moves the watcher to
\* StableEmitted(candidate context); a failed delivery leaves it in
\* DebouncingCandidate with the same candidate and first_seen_at, and the next
\* poll of the same context produces an emission candidate again.
C4_DeliveryOutcome == [][C4_Step]_vars

\* A delivery failed, the next poll of the same context produced a candidate
\* again, and that one was delivered.
C4_Witness ==
    /\ Len(polls) >= 3
    /\ IsSome(polls[Len(polls) - 1].emission_candidate)
    /\ IsSome(polls[Len(polls)].emission_candidate)
    /\ Len(emitted) = 1
    /\ emitted[1].tick = polls[Len(polls)].tick
    /\ focus_watcher_state = StableEmitted(PolledContext(Len(polls)))

\* C5 as claimed: every emission after the first carries a comparable context
\* different from that of the emission before it.
C5_EveryEmissionDiffers ==
    \A k \in DOMAIN emitted :
        k > 1 => emitted[k].candidate_context # emitted[k - 1].candidate_context

\* C5 as amended: an emission after the first carries a comparable context
\* different from that of the emission before it, or a poll between the two
\* emissions observed a different comparable context.
C5_EmissionDiffersOrChangeBetween ==
    \A k \in DOMAIN emitted :
        (k > 1 /\ emitted[k].candidate_context = emitted[k - 1].candidate_context)
        => \E i \in DOMAIN polls :
              /\ emitted[k - 1].tick < polls[i].tick
              /\ polls[i].tick < emitted[k].tick
              /\ PolledContext(i) # emitted[k].candidate_context

\* The same context was emitted twice in a row, another context having been
\* polled in between.
C5_Witness ==
    /\ Len(emitted) = 2
    /\ emitted[1].candidate_context = emitted[2].candidate_context
    /\ \E i \in DOMAIN polls :
          /\ emitted[1].tick < polls[i].tick
          /\ polls[i].tick < emitted[2].tick
          /\ PolledContext(i) # emitted[2].candidate_context

\* C6: at most one event is emitted per tick, and the comparable context of
\* every emitted event was observed by a poll of a strictly earlier tick.
C6_EmissionOrdering ==
    /\ \A k \in DOMAIN emitted : k > 1 => emitted[k - 1].tick < emitted[k].tick
    /\ \A k \in DOMAIN emitted :
          /\ emitted[k].tick <= ticks
          /\ \E i \in DOMAIN polls :
                /\ polls[i].tick < emitted[k].tick
                /\ PolledContext(i) = emitted[k].candidate_context
                /\ ComparableActiveAppContext(emitted[k].candidate_snapshot)
                       = emitted[k].candidate_context

\* Two events were emitted, the second for a context first observed after a
\* tick whose capture failed.
C6_Witness ==
    /\ Len(emitted) = 2
    /\ emitted[1].candidate_context # emitted[2].candidate_context
    /\ Len(polls) < ticks

-----------------------------------------------------------------------------
(* Claims about process_focus_snapshot_poll fed poll by poll (SpecPoll) *)

\* C2: from AwaitingInitialEmission, when one comparable context is polled at
\* t0 and again at least debounce_window later, the first poll emits nothing
\* and the second produces an emission candidate of that context; while that
\* context keeps being polled a candidate is offered on every poll until one
\* is delivered, and exactly one is ever delivered.
C2_InitialEmissionAfterWindow ==
    (/\ Len(polls) >= 2
     /\ RunStart(Len(polls)) = 1
     /\ polls[2].observed_at - polls[1].observed_at >= debounce_window)
    => /\ polls[1].emission_candidate = None
       /\ IsSome(polls[2].emission_candidate)
       /\ Unwrap(polls[2].emission_candidate).candidate_context = PolledContext(1)
       /\ Len(emitted) <= 1
       /\ \A k \in DOMAIN emitted :
             /\ emitted[k].tick >= 2
             /\ emitted[k].candidate_context = PolledContext(1)
       /\ \A i \in 2..Len(polls) :
             IsSome(polls[i].emission_candidate) <=> ~DeliveredWithin(1, i - 1)

\* One context polled three times from the start, the second poll a window
\* after the first and with another captured_at: emitted once, at the second.
C2_Witness ==
    /\ Len(polls) = 3
    /\ RunStart(3) = 1
    /\ debounce_window > 0
    /\ polls[2].observed_at - polls[1].observed_at >= debounce_window
    /\ polls[2].snapshot # polls[1].snapshot
    /\ Len(emitted) = 1
    /\ emitted[1].tick = 2
    /\ polls[3].emission_candidate = None

\* The run of polls that starts at poll j replaced, before its window had
\* elapsed, the context of the run just before it
ChangeBeforeWindowElapsed(j) ==
    /\ j >= 2
    /\ RunStart(j) = j
    /\ polls[j].observed_at - polls[RunStart(j - 1)].observed_at < debounce_window

\* C3: a context change restarts the debounce timer. When context B replaces
\* context A before A's window has elapsed, A is never offered for emission,
\* and B is offered exactly on the polls of B at least debounce_window after
\* B's first poll, until one delivery succeeds; B is delivered at most once.
C3_ChangeRestartsDebounce ==
    \A j \in DOMAIN polls :
        ChangeBeforeWindowElapsed(j) =>
            /\ \A i \in RunStart(j - 1)..(j - 1) : polls[i].emission_candidate = None
            /\ ~DeliveredWithin(RunStart(j - 1), j - 1)
            /\ \A n \in j..Len(polls) :
                  RunStart(n) = j =>
                      /\ IsSome(polls[n].emission_candidate) <=>
                            /\ polls[n].observed_at - polls[j].observed_at
                                   >= debounce_window
                            /\ ~DeliveredWithin(j, n - 1)
                      /\ IsSome(polls[n].emission_candidate) =>
                            Unwrap(polls[n].emission_candidate).candidate_context
                                = PolledContext(j)
                      /\ Cardinality({k \in DOMAIN emitted :
                                        j <= emitted[k].tick /\ emitted[k].tick <= n})
                            <= 1

\* A, then B before A's window elapsed, then B again a full window after A's
\* first poll but not after B's (nothing offered), then B a window after its
\* first poll: offered and delivered.
C3_Witness ==
    /\ Len(polls) = 4
    /\ ChangeBeforeWindowElapsed(2)
    /\ RunStart(4) = 2
    /\ polls[3].observed_at - polls[1].observed_at >= debounce_window
    /\ polls[3].emission_candidate = None
    /\ IsSome(polls[4].emission_candidate)
    /\ Len(emitted) = 1
    /\ emitted[1].tick = 4
    /\ emitted[1].candidate_context = PolledContext(2)

C7_Step ==
    (/\ IsPollStep
     /\ focus_watcher_state.tag = "DebouncingCandidate"
     /\ PolledContext(Len(polls))' = focus_watcher_state.candidate_context)
    => /\ focus_watcher_state' =
              DebouncingCandidate(focus_watcher_state.candidate_context,
                                  polls'[Len(polls')].snapshot,
                                  focus_watcher_state.first_seen_at)
       /\ IsSome(emission_candidate') <=>
              polls'[Len(polls')].observed_at - focus_watcher_state.first_seen_at
                  >= debounce_window
       /\ IsSome(emission_candidate') =>
              Unwrap(emission_candidate') =
                  EmissionCandidate(focus_watcher_state.candidate_context,
                                    polls'[Len(polls')].snapshot)

\* C7: in DebouncingCandidate a poll of the candidate's context keeps
\* first_seen_at, stores the newly polled snapshot, stays in
\* DebouncingCandidate, and produces an emission candidate exactly when
\* observed_at - first_seen_at >= debounce_window; the emission candidate
\* carries the newly polled snapshot.
C7_SameContextRefresh == [][C7_Step]_vars

\* The candidate's context was polled again with another snapshot, a window
\* after it was first seen: the emission candidate carries the new snapshot.
C7_Witness ==
    /\ Len(polls) >= 2
    /\ pc = "emit"
    /\ debounce_window > 0
    /\ RunStart(Len(polls)) < Len(polls)
    /\ polls[Len(polls)].snapshot # polls[Len(polls) - 1].snapshot
    /\ focus_watcher_state.tag = "DebouncingCandidate"
    /\ focus_watcher_state.first_seen_at < polls[Len(polls)].observed_at
    /\ focus_watcher_state.candidate_snapshot = polls[Len(polls)].snapshot
    /\ Unwrap(emission_candidate).candidate_snapshot = polls[Len(polls)].snapshot

C8_Step ==
    (/\ IsPollStep
     /\ focus_watcher_state.tag = "DebouncingCandidate"
     /\ PolledContext(Len(polls))' # focus_watcher_state.candidate_context)
    => /\ focus_watcher_state' =
              DebouncingCandidate(PolledContext(Len(polls))',
                                  polls'[Len(polls')].snapshot,
                                  polls'[Len(polls')].observed_at)
       /\ emission_candidate' = None

\* C8: in DebouncingCandidate a poll of another context replaces the candidate
\* context and snapshot, sets first_seen_at to the poll's instant and produces
\* no emission candidate on that tick, whatever the debounce window, zero
\* included.
C8_ChangedContextNeverEmits == [][C8_Step]_vars

C9_Step ==
    (/\ IsPollStep
     /\ \/ focus_watcher_state.tag = "AwaitingInitialEmission"
        \/ /\ focus_watcher_state.tag = "StableEmitted"
           /\ PolledContext(Len(polls))' # focus_watcher_state.emitted_context)
    => /\ focus_watcher_state' =
              DebouncingCandidate(PolledContext(Len(polls))',
                                  polls'[Len(polls')].snapshot,
                                  polls'[Len(polls')].observed_at)
       /\ emission_candidate' = None
       /\ pc' # "emit"

\* C9: a poll processed in AwaitingInitialEmission, or in StableEmitted(ctx)
\* with a context other than ctx, produces no emission candidate and moves to
\* DebouncingCandidate holding the polled context, the polled snapshot and
\* first_seen_at equal to the poll's instant.
C9_FreshCandidate == [][C9_Step]_vars

\* After an emission another context was polled under a zero-length window:
\* it became the candidate, first seen at that poll, and nothing was offered.
C9_Witness ==
    /\ Len(emitted) = 1
    /\ Len(polls) >= 3
    /\ emitted[1].tick = Len(polls) - 1
    /\ debounce_window = 0
    /\ emission_candidate = None
    /\ PolledContext(Len(polls)) # emitted[1].candidate_context
    /\ focus_watcher_state =
           DebouncingCandidate(PolledContext(Len(polls)),
                               polls[Len(polls)].snapshot,
                               polls[Len(polls)].observed_at)

-----------------------------------------------------------------------------
(* Confidence level as part of the context *)

\* Snapshot a is snapshot b with another confidence level and nothing else
\* changed
OnlyConfidenceDiffers(a, b) ==
    /\ a.confidence_level # b.confidence_level
    /\ [a EXCEPT !.confidence_level = b.confidence_level] = b

LastEmittedSnapshot == emitted[Len(emitted)].candidate_snapshot

C11_Step ==
    /\ (/\ IsPollStep
        /\ focus_watcher_state.tag = "StableEmitted"
        /\ emitted # <<>>
        /\ OnlyConfidenceDiffers(polls'[Len(polls')].snapshot, LastEmittedSnapshot))
       => /\ PolledContext(Len(polls))' # focus_watcher_state.emitted_context
          /\ focus_watcher_state' =
                 DebouncingCandidate(PolledContext(Len(polls))',
                                     polls'[Len(polls')].snapshot,
                                     polls'[Len(polls')].observed_at)
    /\ (/\ IsPollStep
        /\ focus_watcher_state.tag = "DebouncingCandidate"
        /\ emitted # <<>>
        /\ OnlyConfidenceDiffers(polls'[Len(polls')].snapshot, LastEmittedSnapshot)
        /\ PolledContext(Len(polls))' = focus_watcher_state.candidate_context
        /\ polls'[Len(polls')].observed_at - focus_watcher_state.first_seen_at
               >= debounce_window)
       => /\ emission_candidate' =
                 Some(EmissionCandidate(PolledContext(Len(polls))',
                                        polls'[Len(polls')].snapshot))
          /\ pc' = "emit"
    /\ (/\ IsEmitStep
        /\ IsDelivery
        /\ emitted # <<>>
        /\ OnlyConfidenceDiffers(Unwrap(emission_candidate).candidate_snapshot,
                                 LastEmittedSnapshot))
       => /\ emitted'[Len(emitted')].candidate_snapshot =
                 Unwrap(emission_candidate).candidate_snapshot
          /\ emitted'[Len(emitted')].candidate_context #
                 emitted[Len(emitted)].candidate_context
          /\ focus_watcher_state' =
                 StableEmitted(Unwrap(emission_candidate).candidate_context)

\* C11: a change of confidence level alone is a context change: in
\* StableEmitted(ctx) a poll of the emitted snapshot with another confidence
\* level moves the watcher to DebouncingCandidate; once that snapshot has been
\* polled for the debounce window it is offered for emission, and a successful
\* delivery makes it a new event.
C11_ConfidenceChangeIsContextChange == [][C11_Step]_vars

\* Two events were delivered under a non-zero window, the second being the
\* first with another confidence level.
C11_Witness ==
    /\ Len(emitted) = 2
    /\ debounce_window > 0
    /\ OnlyConfidenceDiffers(emitted[2].candidate_snapshot,
                             emitted[1].candidate_snapshot)
    /\ focus_watcher_state = StableEmitted(emitted[2].candidate_context)

-----------------------------------------------------------------------------
(* Skipped ticks, cancellation and the main-thread hand-off *)

\* This step is run_on_main_thread failing in the watcher's capture
IsDispatchFailure ==
    /\ pc = "capture"
    /\ pc' # "capture"
    /\ snapshot_channels' = snapshot_channels

\* This step is the watcher's recv_timeout giving up
IsRecvTimeout ==
    /\ pc = "wait"
    /\ pc' # "wait"
    /\ snapshot_channels[Unwrap(watcher_receiver)].slot = None

C12_Step ==
    (IsDispatchFailure \/ IsRecvTimeout)
    => /\ focus_watcher_state' = focus_watcher_state
       /\ emission_candidate' = None
       /\ polls' = polls
       /\ emitted' = emitted
       /\ ticks' = ticks
       /\ pc' = "sleep"

\* Every delivered event belongs to a tick whose capture was processed
C12_EmissionsOnProcessedTicks ==
    \A k \in 1..Len(emitted) :
        \E i \in 1..Len(polls) :
            /\ polls[i].tick = emitted[k].tick
            /\ IsSome(polls[i].emission_candidate)

\* C12: a tick whose capture request fails to dispatch or is not answered
\* within the timeout is skipped: the watcher state, first_seen_at included,
\* stays as it is, nothing is offered or delivered on that tick, and the
\* thread goes on to the sleep that precedes the next tick.
C12_FailedCaptureSkipsTick ==
    [][C12_Step]_vars /\ []C12_EmissionsOnProcessedTicks

\* The second tick timed out between two polls of one context; the third tick
\* emitted it on the strength of the first.
C12_Witness ==
    /\ Len(polls) = 2
    /\ polls[1].tick = 1
    /\ polls[2].tick = 3
    /\ Len(snapshot_channels) = 3
    /\ snapshot_channels[2].by = "watcher"
    /\ snapshot_channels[2].slot = None
    /\ Len(emitted) = 1
    /\ emitted[1].tick = 3
    /\ PolledContext(1) = PolledContext(2)

C13_Step ==
    /\ should_stop => should_stop'
    /\ (should_stop /\ pc = "check")
       => /\ pc' \in {"check", "done"}
          /\ ticks' = ticks
          /\ polls' = polls
    /\ should_stop => ticks' = ticks
    /\ pc = "done"
       => UNCHANGED <<pc, ticks, polls, emitted, focus_watcher_state, now>>
    /\ stop_checks' # stop_checks
       => /\ pc = "check"
          /\ stop_checks' = stop_checks + 1

\* Every iteration started, and the exit, read the flag once
C13_OneCheckPerIteration ==
    stop_checks = ticks + (IF pc = "done" THEN 1 ELSE 0)

\* C13: once the stop flag is set it stays set; the loop condition that next
\* reads it ends the thread, no iteration and so no capture starts after the
\* flag was set, the thread does terminate, and the flag is read exactly once
\* per iteration.
C13_CooperativeCancellation ==
    /\ [][C13_Step]_vars
    /\ []C13_OneCheckPerIteration
    /\ (should_stop ~> pc = "done")

\* The thread ended with a candidate still being debounced.
C13_Witness ==
    /\ pc = "done"
    /\ should_stop
    /\ ticks >= 2
    /\ Len(polls) = ticks
    /\ focus_watcher_state.tag = "DebouncingCandidate"

\* The closures of the watcher that are queued on the main thread
OutstandingWatcherClosures ==
    {i \in 1..Len(main_thread_queue) :
        snapshot_channels[main_thread_queue[i]].by = "watcher"}

\* C14: at most one capture closure dispatched by the watcher is waiting to be
\* run by the main thread at any time, also after a tick has timed out.
C14_AtMostOneOutstandingRequest == Cardinality(OutstandingWatcherClosures) <= 1

\* A snapshot as the front end receives it
StructurallyValid(snapshot) ==
    /\ DOMAIN snapshot = {"focused_application", "focused_window",
                          "focused_browser_tab", "event_source",
                          "confidence_level", "captured_at"}
    /\ Len(snapshot.focused_application) <= 1
    /\ Len(snapshot.focused_window) <= 1
    /\ Len(snapshot.focused_browser_tab) <= 1
    /\ snapshot.event_source \in FocusEventSource
    /\ snapshot.confidence_level \in FocusConfidenceLevel

\* C17: active_app_get_current_context always returns a structurally valid
\* snapshot; when the dispatch to the main thread failed or no result came
\* within the timeout, the snapshot has no application, no window, no browser
\* tab and confidence Low.
C17_QueryAlwaysReturnsSnapshot ==
    query_outcome # "none"
    => /\ IsSome(query_result)
       /\ StructurallyValid(Unwrap(query_result))
       /\ query_outcome \in {"dispatch_failed", "timed_out"}
          => /\ Unwrap(query_result).focused_application = None
             /\ Unwrap(query_result).focused_window = None
             /\ Unwrap(query_result).focused_browser_tab = None
             /\ Unwrap(query_result).confidence_level = "Low"

\* A query was answered, the next one timed out and returned the fallback, and
\* its closure ran afterwards with no one left to receive.
C17_Witness ==
    /\ query_outcome = "timed_out"
    /\ query_pc = "idle"
    /\ query_result = Some(FallbackSnapshot)
    /\ Len(snapshot_channels) >= 2
    /\ snapshot_channels[1].by = "query"
    /\ IsSome(snapshot_channels[1].slot)
    /\ snapshot_channels[2].by = "query"
    /\ snapshot_channels[2].ran
    /\ snapshot_channels[2].slot = None

-----------------------------------------------------------------------------
(* The lifecycle driven by the setting *)

\* This step is a call of sync_focus_watcher_enabled
IsToggle == toggles' = toggles + 1

\* The watcher threads whose stop flag is unset
RunningWatchers == {w \in 1..Len(watchers) : ~watchers[w].should_stop}

C15_Step ==
    IsToggle
    => /\ (Unwrap(last_toggle') /\ IsSome(focus_watcher_handle))
          => UNCHANGED <<focus_watcher_handle, watchers>>
       /\ (Unwrap(last_toggle') /\ focus_watcher_handle = None)
          => /\ focus_watcher_handle' = Some(Len(watchers) + 1)
             /\ watchers' = Append(watchers, SpawnedWatcher)
       /\ (~Unwrap(last_toggle') /\ IsSome(focus_watcher_handle))
          => /\ focus_watcher_handle' = None
             /\ Len(watchers') = Len(watchers)
             /\ watchers'[Unwrap(focus_watcher_handle)].should_stop
             /\ \A w \in 1..Len(watchers) :
                    w # Unwrap(focus_watcher_handle) => watchers'[w] = watchers[w]
       /\ (~Unwrap(last_toggle') /\ focus_watcher_handle = None)
          => UNCHANGED <<focus_watcher_handle, watchers>>

C15_HandleFollowsLastToggle ==
    /\ IsSome(focus_watcher_handle) <=> last_toggle = Some(TRUE)
    /\ Cardinality(RunningWatchers) <= 1
    /\ IsSome(focus_watcher_handle)
       => RunningWatchers = {Unwrap(focus_watcher_handle)}

\* C15: enabling starts a watcher and stores its handle only when none is
\* stored; disabling removes the stored handle and sets its stop flag, and does
\* nothing when none is stored.  After any sequence of toggles a handle is
\* stored exactly when the last toggle was an enable, and at most one watcher
\* has its stop flag unset.
C15_SettingsDrivenLifecycle ==
    [][C15_Step]_vars /\ []C15_HandleFollowsLastToggle

\* Enable, disable, enable: the second watcher's handle is stored and the
\* first watcher is stopped.
C15_Witness ==
    /\ toggles = 3
    /\ Len(watchers) = 2
    /\ watchers[1].should_stop
    /\ focus_watcher_handle = Some(2)
    /\ last_toggle = Some(TRUE)

\* C16: no watcher delivers an event after a later watcher has been started.
C16_NoEmissionAfterSuccessorStarted ==
    \A k \in 1..Len(thread_events) :
        thread_events[k].watchers_started = thread_events[k].watcher

-----------------------------------------------------------------------------
(* The snapshot the capture returns *)

\* The browser the platform's table gives for the application of the snapshot
ClassifiedBrowser(snapshot) ==
    IF snapshot.focused_application = None THEN None
    ELSE IF platform = "macos"
    THEN IF Unwrap(snapshot.focused_application).bundle_id = None THEN None
         ELSE supported_browser_from_bundle_identifier(
                  Unwrap(Unwrap(snapshot.focused_application).bundle_id))
    ELSE IF platform = "windows"
    THEN supported_browser_from_application_name(
             Unwrap(snapshot.focused_application).display_name)
    ELSE None

\* The accessibility details the macOS capture worked with
MacDetails ==
    get_accessibility_focused_window_details_for_frontmost_application(
        os_focus, collect_frontmost_application_metadata(os_focus))

\* The origin the structured path of the platform yields for this capture
StructuredOrigin ==
    IF platform = "macos" THEN MacDocumentOrigin(MacDetails)
    ELSE IF platform = "windows" /\ os_focus.foreground_window
    THEN extract_browser_document_origin_from_uia(os_focus)
    ELSE None

\* C18: in every snapshot the capture returns, a browser tab is present only
\* if the platform's table classifies the application as a browser: the bundle
\* identifier on macOS, the executable's base name on Windows.
C18_BrowserTabOnlyForBrowsers ==
    IsSome(captured_snapshot)
    => (IsSome(Unwrap(captured_snapshot).focused_browser_tab)
        => IsSome(ClassifiedBrowser(Unwrap(captured_snapshot))))

\* An application that is no browser shows a window titled like a browser's
\* and has a document URL: the snapshot has the window and no tab.
C18_Witness ==
    /\ IsSome(captured_snapshot)
    /\ platform = "macos"
    /\ IsSome(Unwrap(captured_snapshot).focused_application)
    /\ ClassifiedBrowser(Unwrap(captured_snapshot)) = None
    /\ Unwrap(captured_snapshot).focused_window =
           Some(FocusedWindow(<<"D", "o", "c", "s", " ", "-", " ", "S", "a", "f", "a", "r", "i">>))
    /\ IsSome(StructuredOrigin)
    /\ Unwrap(captured_snapshot).focused_browser_tab = None

\* The tab title the window title of the snapshot yields for its browser
DerivableTabTitle(snapshot) ==
    infer_browser_tab_title_from_window_title(
        WindowTitle(snapshot.focused_window),
        display_name(Unwrap(ClassifiedBrowser(snapshot))))

\* C19: a browser tab in a snapshot has a title or an origin; for a recognised
\* browser with neither a derivable tab title nor an origin the tab is absent.
C19_NoEmptyShellTab ==
    IsSome(captured_snapshot)
    => /\ IsSome(Unwrap(captured_snapshot).focused_browser_tab)
          => \/ IsSome(Unwrap(Unwrap(captured_snapshot).focused_browser_tab).title)
             \/ IsSome(Unwrap(Unwrap(captured_snapshot).focused_browser_tab).origin)
       /\ (/\ IsSome(ClassifiedBrowser(Unwrap(captured_snapshot)))
           /\ DerivableTabTitle(Unwrap(captured_snapshot)) = None
           /\ StructuredOrigin = None)
          => Unwrap(captured_snapshot).focused_browser_tab = None

\* A recognised browser with no window title and no origin: no tab.
C19_Witness ==
    /\ IsSome(captured_snapshot)
    /\ IsSome(ClassifiedBrowser(Unwrap(captured_snapshot)))
    /\ Unwrap(captured_snapshot).focused_window = None
    /\ StructuredOrigin = None
    /\ Unwrap(captured_snapshot).focused_browser_tab = None

\* The event source that names the structured API of the platform
StructuredEventSource ==
    IF platform = "macos" THEN "Accessibility" ELSE "Uia"

\* The window title of the snapshot came from the structured path.  On Windows
\* the title is the text of GetWindowTextW.
StructuredPathProducedWindowTitle ==
    /\ platform = "macos"
    /\ IsSome(MacDetails)
    /\ IsSome(Unwrap(MacDetails).focused_window_title)

\* The tab origin of the snapshot, which only the structured path can give
StructuredPathProducedTabOrigin ==
    FocusedBrowserOriginIsPresent(Unwrap(captured_snapshot).focused_browser_tab)

\* C20: the event source of a snapshot is the structured-API value exactly
\* when the structured path produced its window title or its tab origin, and
\* is Polling otherwise.
C20_EventSourceReflectsStructuredPath ==
    (IsSome(captured_snapshot) /\ platform \in {"macos", "windows"})
    => IF StructuredPathProducedWindowTitle \/ StructuredPathProducedTabOrigin
       THEN Unwrap(captured_snapshot).event_source = StructuredEventSource
       ELSE Unwrap(captured_snapshot).event_source = "Polling"

\* Nothing is in the foreground: no frontmost application (macOS), no
\* foreground window (Windows)
NothingInForeground ==
    \/ platform = "macos" /\ os_focus.frontmost_application = None
    \/ platform = "windows" /\ ~os_focus.foreground_window

\* C21: when nothing is in the foreground, the capture returns a snapshot with
\* application, window and browser tab absent, confidence Low and event source
\* Polling.
C21_NothingInForegroundIsEmptySnapshot ==
    (IsSome(captured_snapshot) /\ NothingInForeground)
    => /\ Unwrap(captured_snapshot).focused_application = None
       /\ Unwrap(captured_snapshot).focused_window = None
       /\ Unwrap(captured_snapshot).focused_browser_tab = None
       /\ Unwrap(captured_snapshot).confidence_level = "Low"
       /\ Unwrap(captured_snapshot).event_source = "Polling"

\* No frontmost application on macOS while the process is trusted and the
\* accessibility tree and the window list both have something to report.
C21_Witness ==
    /\ IsSome(captured_snapshot)
    /\ platform = "macos"
    /\ os_focus.frontmost_application = None
    /\ os_focus.accessibility_trusted
    /\ os_focus.focused_window_element
    /\ IsSome(os_focus.ax_title)
    /\ Len(os_focus.window_list) > 0
    /\ Unwrap(captured_snapshot).focused_window = None

\* The process is not trusted for accessibility (macOS)
AccessibilityNotTrusted ==
    platform = "macos" /\ ~os_focus.accessibility_trusted

\* The window title the window manager reports for the frontmost application
WindowManagerTitle ==
    IF collect_frontmost_application_metadata(os_focus) = None THEN None
    ELSE get_frontmost_window_title_from_core_graphics(
             os_focus,
             Unwrap(collect_frontmost_application_metadata(os_focus)).process_identifier)

\* C22: when the process is not trusted for accessibility the capture queries
\* no accessibility attribute (the snapshot does not depend on them) and still
\* returns a snapshot: the application from the frontmost application's
\* metadata, the window from the window manager's title, the browser tab from
\* the classification and that title, no tab origin, event source Polling.
C22_PermissionFailureDegrades ==
    (IsSome(captured_snapshot) /\ AccessibilityNotTrusted)
    => /\ MacDetails = None
       /\ Unwrap(captured_snapshot) =
              macos_get_current_active_app_context(
                  [os_focus EXCEPT !.focused_window_element = FALSE,
                                   !.ax_title = None, !.ax_document = None])
       /\ Unwrap(captured_snapshot).focused_application =
              build_focused_application(
                  collect_frontmost_application_metadata(os_focus))
       /\ WindowTitle(Unwrap(captured_snapshot).focused_window) = WindowManagerTitle
       /\ (IsSome(ClassifiedBrowser(Unwrap(captured_snapshot))) /\ IsSome(WindowManagerTitle))
          => /\ IsSome(Unwrap(captured_snapshot).focused_browser_tab)
             /\ Unwrap(Unwrap(captured_snapshot).focused_browser_tab).browser =
                    Some(display_name(Unwrap(ClassifiedBrowser(Unwrap(captured_snapshot)))))
       /\ ~FocusedBrowserOriginIsPresent(Unwrap(captured_snapshot).focused_browser_tab)
       /\ Unwrap(captured_snapshot).event_source = "Polling"

\* Not trusted, although the accessibility tree has a title and a document
\* URL: a recognised browser gets its window and its tab from the window
\* manager's title.
C22_Witness ==
    /\ IsSome(captured_snapshot)
    /\ AccessibilityNotTrusted
    /\ os_focus.focused_window_element
    /\ IsSome(os_focus.ax_document)
    /\ IsSome(normalize_browser_document_origin(Unwrap(os_focus.ax_document)))
    /\ IsSome(os_focus.ax_title)
    /\ IsSome(WindowManagerTitle)
    /\ IsSome(Unwrap(captured_snapshot).focused_application)
    /\ IsSome(Unwrap(captured_snapshot).focused_browser_tab)
    /\ Unwrap(captured_snapshot).event_source = "Polling"

\* The OS denies accessibility or automation access, or the platform has no
\* adapter
AccessDeniedOrUnsupported ==
    \/ AccessibilityNotTrusted
    \/ platform = "windows" /\ os_focus.foreground_window /\ ~os_focus.ui_automation_available
    \/ platform = "other"

\* C23 as stated: with access denied or on an unsupported platform the
\* snapshot's confidence level is Low.
C23_DeniedAccessIsLow ==
    (IsSome(captured_snapshot) /\ AccessDeniedOrUnsupported)
    => Unwrap(captured_snapshot).confidence_level = "Low"

\* C23: with access denied or on an unsupported platform the snapshot has no
\* tab origin and its confidence level is never High: it is Medium when a
\* window title was found and Low otherwise, and always Low on a platform
\* without adapter.
C23_DeniedAccessIsNeverHigh ==
    (IsSome(captured_snapshot) /\ AccessDeniedOrUnsupported)
    => /\ ~FocusedBrowserOriginIsPresent(Unwrap(captured_snapshot).focused_browser_tab)
       /\ Unwrap(captured_snapshot).confidence_level =
              IF IsSome(Unwrap(captured_snapshot).focused_window)
              THEN "Medium" ELSE "Low"
       /\ platform = "other" => Unwrap(captured_snapshot).confidence_level = "Low"

\* Access denied and a window title from the window manager: Medium.
C23_Witness ==
    /\ IsSome(captured_snapshot)
    /\ AccessibilityNotTrusted
    /\ os_focus.focused_window_element
    /\ IsSome(os_focus.ax_document)
    /\ IsSome(Unwrap(captured_snapshot).focused_window)
    /\ Unwrap(captured_snapshot).confidence_level = "Medium"

-----------------------------------------------------------------------------
(* The shared functions *)

\* C24: for every URL scheme://host[:port][/path][?q][#f] with a scheme and a
\* host, the normalised origin is exactly scheme://host[:port].
C24_AbsoluteUrlOrigin ==
    \A parts \in AbsoluteUrlParts :
        (url_input = ComposeUrl(parts) /\ origin_result # None)
        => Unwrap(origin_result) =
               Some(parts.scheme \o <<":", "/", "/">> \o parts.host \o parts.port)

\* A URL with a port, a path, a query and a fragment has been normalised.
C24_Witness ==
    /\ origin_result = Some(Some(<<"h", "t", "t", "p", "s", ":", "/", "/", "x", ".", "i", "o", ":", "8">>))
    /\ url_input = <<"h", "t", "t", "p", "s", ":", "/", "/", "x", ".", "i", "o", ":", "8", "/", "p", "?", "q", "#", "f">>

\* The text has no "://"
IsSchemeLess(text) == Find(text, <<":", "/", "/">>) = 0

\* What the scheme-less rule gives for a text: absent with whitespace in it;
\* otherwise https://<authority> when the authority (the text before the first
\* '/', '?' or '#') is not empty and its host (the authority before its first
\* ':') has a '.', is localhost in any case, or is an IP address
SchemeLessRule(text) ==
    LET authority == AuthorityComponent(text)
        host == IF FindAnyOf(authority, {":"}) = 0 THEN authority
                ELSE SubSeq(authority, 1, FindAnyOf(authority, {":"}) - 1)
    IN  IF \E i \in 1..Len(text) : text[i] \in WhitespaceChars THEN None
        ELSE IF /\ authority # <<>>
                /\ \/ \E i \in 1..Len(host) : host[i] = "."
                   \/ ToLowercase(host) = <<"l", "o", "c", "a", "l", "h", "o", "s", "t">>
                   \/ ParsesAsIpAddr(host)
        THEN Some(<<"h", "t", "t", "p", "s", ":", "/", "/">> \o authority)
        ELSE None

C26_MalformedAbsoluteIsAbsent ==
    LET text == Trim(url_input)
        scheme_separator_index == Find(text, <<":", "/", "/">>)
        remainder == SubSeq(text, scheme_separator_index + 3, Len(text))
    IN  (/\ origin_result # None
         /\ scheme_separator_index # 0
         /\ remainder = <<>> \/ AuthorityComponent(remainder) = <<>>)
        => Unwrap(origin_result) = None

\* The real dash separators a browser puts before its name
DashSeparators == {<<" ", "-", " ">>, <<" ", "em-dash", " ">>}

\* The suffixes of the title that are a dash separator and the browser's name
MatchingSeparators(title, browser) ==
    {separator \in DashSeparators : StripSuffix(title, separator \o browser) # None}

\* C27: a title that is not empty once trimmed always gives a tab title: the
\* trimmed text before " - <BrowserName>" or its em-dash variant (the full
\* title when that text is empty), or the trimmed title when it has no such
\* suffix; an absent or blank title gives none.
C27_TabTitleInference ==
    tab_title_result # None
    => IF title_input = None \/ Trim(Unwrap(title_input)) = <<>>
       THEN Unwrap(tab_title_result) = None
       ELSE LET title == Trim(Unwrap(title_input))
                separators == MatchingSeparators(title, browser_input)
            IN  IF separators = {}
                THEN Unwrap(tab_title_result) = Some(title)
                ELSE \E separator \in separators :
                        LET before == Trim(Unwrap(StripSuffix(title, separator \o browser_input)))
                        IN  Unwrap(tab_title_result) =
                                Some(IF before = <<>> THEN title ELSE before)

\* C28: the confidence level is High exactly with a window and an origin,
\* otherwise Medium exactly with a window or a browser tab, otherwise Low.
C28_ConfidenceTable ==
    confidence_result # None
    => Unwrap(confidence_result) =
           IF presence_input.focused_window /\ presence_input.focused_browser_origin
           THEN "High"
           ELSE IF presence_input.focused_window \/ presence_input.focused_browser_tab
           THEN "Medium"
           ELSE "Low"

\* A tab with an origin and no window has been rated: Medium.
C28_Witness ==
    /\ confidence_result = Some("Medium")
    /\ ~presence_input.focused_window
    /\ presence_input.focused_browser_tab
    /\ presence_input.focused_browser_origin

\* Low < Medium < High
ConfidenceRank(level) ==
    CASE level = "Low" -> 0 [] level = "Medium" -> 1 [] level = "High" -> 2

\* Exactly one field went from absent to present
OneMoreFieldPopulated ==
    \E field \in DOMAIN presence_input :
        /\ ~presence_input[field]
        /\ presence_input' = [presence_input EXCEPT ![field] = TRUE]

C29_Step ==
    (confidence_result # None /\ confidence_result' # None /\ OneMoreFieldPopulated)
    => ConfidenceRank(Unwrap(confidence_result')) >= ConfidenceRank(Unwrap(confidence_result))

\* C29: populating one more of window, browser tab and origin, the others as
\* they were, never lowers the confidence level.
C29_ConfidenceMonotone == [][C29_Step]_vars

\* All three fields have been populated one after the other, starting from
\* none: the level went from Low to High.
C29_Witness ==
    /\ url_input # <<>>
    /\ presence_input = [focused_window |-> TRUE, focused_browser_tab |-> TRUE, focused_browser_origin |-> TRUE]
    /\ confidence_result = Some("High")

-----------------------------------------------------------------------------
(* The AudioMuteManager *)

\* The calls of the history that are a mute() from NotMuting on muted audio
MutesOfUserMutedAudio ==
    {i \in 1..Len(mute_operations) :
        /\ mute_operations[i].operation = "mute"
        /\ mute_operations[i].state_before = NotMuting
        /\ mute_operations[i].audio_before}

\* The mute() and the unmute() that follows it issue no set_muted call, the
\* audio stays muted and the manager is back in NotMuting
LeavesUserMuteAlone(i) ==
    /\ mute_operations[i].issued = <<>>
    /\ mute_operations[i].audio_after
    /\ (i < Len(mute_operations) /\ mute_operations[i + 1].operation = "unmute")
       => /\ mute_operations[i + 1].issued = <<>>
          /\ mute_operations[i + 1].audio_after
          /\ mute_operations[i + 1].state_after = NotMuting

ControllerCallsSucceeded ==
    \A i \in 1..Len(mute_operations) :
        /\ mute_operations[i].is_muted_result # "GetPropertyFailed"
        /\ mute_operations[i].result = "Ok"

\* The call i is the first unmute() after a mute() that issued set_muted(true)
FirstUnmuteAfterIssuingMute(i) ==
    /\ mute_operations[i].operation \in {"unmute", "drop"}
    /\ \E j \in 1..(i - 1) :
          /\ mute_operations[j].operation = "mute"
          /\ mute_operations[j].issued = <<TRUE>>
          /\ \A k \in (j + 1)..(i - 1) : mute_operations[k].operation = "mute"

\* C31: while the controller calls succeed, the set_muted calls issued are
\* true, false, true, ... in turn; a mute() while already muting issues none,
\* and set_muted(false) comes only from the first unmute() after a mute() that
\* issued set_muted(true).
C31_SetMutedCallsAlternate ==
    ControllerCallsSucceeded
    => /\ \A i \in 1..Len(set_muted_calls) : set_muted_calls[i] = (i % 2 = 1)
       /\ \A i \in 1..Len(mute_operations) :
             /\ (mute_operations[i].operation = "mute"
                 /\ mute_operations[i].state_before # NotMuting)
                => mute_operations[i].issued = <<>>
             /\ mute_operations[i].issued = <<FALSE>>
                => FirstUnmuteAfterIssuingMute(i)

\* mute, mute again, unmute, unmute again with a working controller: one
\* set_muted(true) and one set_muted(false).
C31_Witness ==
    /\ ControllerCallsSucceeded
    /\ Len(mute_operations) = 4
    /\ mute_operations[1].operation = "mute"
    /\ mute_operations[2].operation = "mute"
    /\ mute_operations[3].operation = "unmute"
    /\ mute_operations[4].operation = "unmute"
    /\ set_muted_calls = <<TRUE, FALSE>>

\* C32: dropping the manager in MutedByUs issues set_muted(false); dropping
\* it in NotMuting or AudioWasAlreadyMutedByUser issues no set_muted call.
C32_DropUnmutesOnlyOwnMute ==
    \A i \in 1..Len(mute_operations) :
        mute_operations[i].operation = "drop"
        => mute_operations[i].issued =
               IF mute_operations[i].state_before = MutedByUs THEN <<FALSE>> ELSE <<>>

\* The manager muted the audio and was dropped: true, then false.
C32_Witness ==
    /\ manager_dropped
    /\ Len(mute_operations) = 2
    /\ mute_operations[2].operation = "drop"
    /\ mute_operations[2].state_before = MutedByUs
    /\ set_muted_calls = <<TRUE, FALSE>>
    /\ ~audio_is_muted

\* C38: a mute() or unmute() whose set_muted call fails returns the error and
\* leaves the state as it was, NotMuting for mute() and MutedByUs for
\* unmute(), so that the unmute() or drop after a failed unmute() issues
\* set_muted(false) again.
C38_FailedSetMutedKeepsState ==
    \A i \in 1..Len(mute_operations) :
        /\ (mute_operations[i].operation \in {"mute", "unmute"}
            /\ mute_operations[i].issued # <<>>
            /\ mute_operations[i].state_after # mute_operations[i].state_before)
           => mute_operations[i].result = "Ok"
        /\ mute_operations[i].result = "SetPropertyFailed"
           => /\ mute_operations[i].issued # <<>>
              /\ mute_operations[i].state_after = mute_operations[i].state_before
              /\ mute_operations[i].audio_after = mute_operations[i].audio_before
              /\ mute_operations[i].operation = "mute"
                 => mute_operations[i].state_after = NotMuting
              /\ mute_operations[i].operation \in {"unmute", "drop"}
                 => /\ mute_operations[i].state_after = MutedByUs
                    /\ (i < Len(mute_operations)
                        /\ mute_operations[i + 1].operation \in {"unmute", "drop"})
                       => mute_operations[i + 1].issued = <<FALSE>>

\* A failed unmute() and the unmute() after it: set_muted(false) twice.
C38_Witness ==
    /\ Len(mute_operations) = 3
    /\ mute_operations[2].operation = "unmute"
    /\ mute_operations[2].result = "SetPropertyFailed"
    /\ mute_operations[3].operation = "unmute"
    /\ mute_operations[3].result = "Ok"
    /\ set_muted_calls = <<TRUE, FALSE, FALSE>>
    /\ mute_state = NotMuting

-----------------------------------------------------------------------------
(* The history storage *)

\* The records of the file, in order
StoredRecords == Unwrap(history_file)[2]["entries"][2]

\* add_entry has just run: the newest entry in memory carries the context
\* handed over, an Ok result is that entry, and the file written reads back
\* as the entries in memory
AddEntryKeepsContext ==
    history_operation.operation = "add_entry" =>
        /\ Len(history_entries) >= 1
        /\ history_entries[1].active_app_context = history_operation.active_app_context
        /\ history_result \in {HistoryErr, HistoryOk(history_entries[1])}
        /\ history_operation.saved =>
               /\ history_result = HistoryOk(history_entries[1])
               /\ load_from_file(history_file) = Some(history_entries)

\* The storage has just been built from a readable file: a record that lacks
\* active_app_context is an entry without context
LegacyRecordLoadsWithoutContext ==
    (history_operation.operation = "new" /\ load_from_file(history_file) # None) =>
        /\ Len(history_entries) = Len(StoredRecords)
        /\ \A i \in 1..Len(StoredRecords) :
               ~HasField(StoredRecords[i], "active_app_context") =>
                   history_entries[i].active_app_context = None

\* get_all right after add_entry: what it returns starts with the entry added
GetAllAfterAddEntry ==
    (history_operation.operation = "add_entry" /\ history_operation'.operation = "get_all") =>
        /\ history_result'[1] = "Ok"
        /\ history_operation'.limit # Some(0) =>
               /\ Len(history_result'[2]) >= 1
               /\ history_result'[2][1] = history_entries[1]
               /\ history_result'[2][1].active_app_context = history_operation.active_app_context

\* C33: add_entry stores, and returns when the save succeeds, an entry whose
\* active_app_context is exactly the context handed over, None included; a
\* get_all that follows returns that entry first; and a stored record without
\* the field loads with active_app_context = None.
C33_HistoryKeepsContext ==
    /\ [](AddEntryKeepsContext /\ LegacyRecordLoadsWithoutContext)
    /\ [][GetAllAfterAddEntry]_vars

\* get_all returned a freshly added entry with its snapshot first, ahead of an
\* entry loaded from a record without the field
C33_Witness ==
    /\ history_operation.operation = "get_all"
    /\ history_result[1] = "Ok"
    /\ Len(history_result[2]) = 2
    /\ history_result[2][1].active_app_context = Some(CodeSnapshotLater)
    /\ history_result[2][2].active_app_context = None
    /\ history_file # None
    /\ load_from_file(history_file) = Some(history_entries)
    /\ ~HasField(LegacyRecord, "active_app_context")
    /\ history_entries[2].text = "legacy entry"

-----------------------------------------------------------------------------
(* The design constants *)

\* The events delivered before the tick
DeliveredBefore(tick) == {k \in DOMAIN emitted : emitted[k].tick < tick}

\* The context of the last event delivered before the tick, if any
LastEmittedBefore(tick) ==
    IF DeliveredBefore(tick) = {} THEN None
    ELSE Some(emitted[CHOOSE k \in DeliveredBefore(tick) :
                          \A m \in DeliveredBefore(tick) : m <= k].candidate_context)

\* Poll i is the second of two consecutive polls of one context, which is not
\* the context emitted last
ConfirmsChange(i) ==
    /\ i >= 2
    /\ PolledContext(i - 1) = PolledContext(i)
    /\ LastEmittedBefore(polls[i].tick) # Some(PolledContext(i))

\* Poll i saw a context that the polls before and after it did not see
SeenOnce(i) ==
    /\ i >= 2
    /\ i < Len(polls)
    /\ PolledContext(i - 1) # PolledContext(i)
    /\ PolledContext(i + 1) # PolledContext(i)

\* C34: with a poll interval of 250 ms and a debounce window of 75 ms, the
\* second of two consecutive successful polls of one context that is not the
\* last emitted one produces an emission candidate for that context, and a
\* context seen at one poll only, between polls of other contexts, produces no
\* candidate and no event at that poll.
C34_TwoPollsConfirmOnePollNever ==
    /\ PollIntervalMs >= DebounceWindowMs
    /\ \A i \in 1..Len(polls) :
           /\ ConfirmsChange(i)
              => /\ IsSome(polls[i].emission_candidate)
                 /\ Unwrap(polls[i].emission_candidate).candidate_context = PolledContext(i)
                 /\ polls[i].observed_at - polls[i - 1].observed_at >= PollIntervalMs
           /\ SeenOnce(i)
              => /\ polls[i].emission_candidate = None
                 /\ ~DeliveredWithin(polls[i].tick, polls[i].tick)

\* Code twice and delivered, Terminal once, Code again, then Terminal twice:
\* the lone Terminal poll gave nothing and the second of the last two polls
\* gave a candidate for Terminal.
C34_Witness ==
    /\ Len(polls) = 6
    /\ Len(emitted) >= 1
    /\ emitted[1].tick = polls[2].tick
    /\ SeenOnce(3)
    /\ polls[3].emission_candidate = None
    /\ ConfirmsChange(6)
    /\ IsSome(LastEmittedBefore(polls[6].tick))
    /\ IsSome(polls[6].emission_candidate)

-----------------------------------------------------------------------------
(* The confidence level of a captured snapshot *)

\* The three presence flags of a snapshot, read off its own fields
WindowIsPresent(snapshot) == IsSome(snapshot.focused_window)

TabIsPresent(snapshot) == IsSome(snapshot.focused_browser_tab)

TabOriginIsPresent(snapshot) ==
    /\ IsSome(snapshot.focused_browser_tab)
    /\ IsSome(Unwrap(snapshot.focused_browser_tab).origin)

\* C35: the confidence level of every snapshot the capture returns is the one
\* the confidence rule gives for the snapshot's own window, browser tab and
\* tab origin: High only with all three present, Low with neither a window
\* nor a tab.
C35_ConfidenceMatchesOwnFields ==
    IsSome(captured_snapshot)
    => /\ Unwrap(captured_snapshot).confidence_level =
              determine_focus_confidence_level(
                  WindowIsPresent(Unwrap(captured_snapshot)),
                  TabIsPresent(Unwrap(captured_snapshot)),
                  TabOriginIsPresent(Unwrap(captured_snapshot)))
       /\ Unwrap(captured_snapshot).confidence_level = "High"
          => /\ WindowIsPresent(Unwrap(captured_snapshot))
             /\ TabIsPresent(Unwrap(captured_snapshot))
             /\ TabOriginIsPresent(Unwrap(captured_snapshot))
       /\ (~WindowIsPresent(Unwrap(captured_snapshot)) /\ ~TabIsPresent(Unwrap(captured_snapshot)))
          => Unwrap(captured_snapshot).confidence_level = "Low"
       /\ (WindowIsPresent(Unwrap(captured_snapshot)) /\ TabOriginIsPresent(Unwrap(captured_snapshot)))
          => Unwrap(captured_snapshot).confidence_level = "High"

\* A browser whose document URL was read but whose window has no title: a tab
\* with an origin and no window, which is Medium.
C35_Witness ==
    /\ IsSome(captured_snapshot)
    /\ ~WindowIsPresent(Unwrap(captured_snapshot))
    /\ TabOriginIsPresent(Unwrap(captured_snapshot))
    /\ Unwrap(captured_snapshot).confidence_level = "Medium"

-----------------------------------------------------------------------------
(* A stopped watcher *)

\* The watcher was in an iteration, past the loop condition and before the
\* delivery, when stop() was called
StoppedInFlight(w) == Unwrap(watchers[w].stopped_at).pc \in {"capture", "emit"}

\* What a watcher does after stop() was called on its handle
AfterStop(w) ==
    /\ watchers[w].should_stop <=> IsSome(watchers[w].stopped_at)
    /\ IsSome(watchers[w].stopped_at)
       => /\ watchers[w].ticks = Unwrap(watchers[w].stopped_at).ticks
          /\ Cardinality(EventsOf(w)) <= Unwrap(watchers[w].stopped_at).events + 1
          /\ Cardinality(EventsOf(w)) > Unwrap(watchers[w].stopped_at).events
             => StoppedInFlight(w)

\* The flag of a watcher is not reset
FlagStaysSet ==
    \A w \in 1..Len(watchers) :
        watchers[w].should_stop
        => /\ watchers'[w].should_stop
           /\ watchers'[w].stopped_at = watchers[w].stopped_at

\* C36: once stop() has been called on a watcher's handle its stop flag stays
\* set, the watcher starts no further iteration, and it delivers at most one
\* more event, which comes from the iteration that was past the loop condition
\* when the flag was set.
C36_StoppedWatcherEmitsAtMostOnce ==
    /\ [](\A w \in 1..Len(watchers) : AfterStop(w))
    /\ [][FlagStaysSet]_vars

\* A watcher was stopped while its second iteration waited for the capture; it
\* delivered its first event after that and then ended.
C36_Witness ==
    /\ Len(watchers) >= 1
    /\ IsSome(watchers[1].stopped_at)
    /\ Unwrap(watchers[1].stopped_at).pc = "capture"
    /\ Unwrap(watchers[1].stopped_at).events = 0
    /\ Cardinality(EventsOf(1)) = 1
    /\ watchers[1].pc = "done"

-----------------------------------------------------------------------------
(* A capture that arrives late *)

\* The request is the last one dispatched by its kind of caller
IsLatestRequestBy(request, by) ==
    /\ snapshot_channels[request].by = by
    /\ \A i \in 1..Len(snapshot_channels) :
           snapshot_channels[i].by = by => i <= request

\* The closure of the request ran after its receiver had given up
RanLate(request) ==
    /\ snapshot_channels[request].ran
    /\ snapshot_channels[request].slot = None

\* This step is the main thread running the closure of a request whose
\* receiver has given up
IsLateRun ==
    /\ main_thread_queue # <<>>
    /\ main_thread_queue' = Tail(main_thread_queue)
    /\ ~ReceiverAlive(Head(main_thread_queue))

\* This step is active_app_get_current_context returning what it received
IsQueryAnswer ==
    /\ query_pc = "wait"
    /\ query_pc' = "idle"
    /\ query_outcome' = "answered"

C37_Step ==
    /\ IsLateRun
       => /\ snapshot_channels'[Head(main_thread_queue)].ran
          /\ snapshot_channels'[Head(main_thread_queue)].slot = None
          /\ \A i \in 1..Len(snapshot_channels) :
                 i # Head(main_thread_queue)
                 => snapshot_channels'[i] = snapshot_channels[i]
          /\ UNCHANGED <<polls, emitted, focus_watcher_state, query_result>>
    /\ IsPollStep
       => /\ IsSome(watcher_receiver)
          /\ IsLatestRequestBy(Unwrap(watcher_receiver), "watcher")
          /\ snapshot_channels[Unwrap(watcher_receiver)].ran
          /\ Some(polls'[Len(polls')].snapshot) =
                 snapshot_channels[Unwrap(watcher_receiver)].slot
    /\ IsQueryAnswer
       => /\ IsLatestRequestBy(Unwrap(query_receiver), "query")
          /\ snapshot_channels[Unwrap(query_receiver)].ran
          /\ query_result' = snapshot_channels[Unwrap(query_receiver)].slot
    /\ \A i \in 1..Len(snapshot_channels) :
           snapshot_channels[i].ran => snapshot_channels'[i] = snapshot_channels[i]

\* A queued closure finds its own channel empty, and each request is queued
\* once: its send has room
QueuedSendHasRoom ==
    /\ \A i \in 1..Len(main_thread_queue) :
           /\ ~snapshot_channels[main_thread_queue[i]].ran
           /\ snapshot_channels[main_thread_queue[i]].slot = None
    /\ \A i, j \in 1..Len(main_thread_queue) :
           main_thread_queue[i] = main_thread_queue[j] => i = j

\* A receiver waits on the channel of the request its caller made last
ReceiversWaitOnOwnRequest ==
    /\ IsSome(watcher_receiver)
       => pc = "wait" /\ IsLatestRequestBy(Unwrap(watcher_receiver), "watcher")
    /\ IsSome(query_receiver)
       => query_pc = "wait" /\ IsLatestRequestBy(Unwrap(query_receiver), "query")

\* C37: a snapshot the main thread produces after the requesting poll or query
\* has timed out is dropped with its channel: a poll and a query consume only
\* the snapshot their own closure sent on their own channel, and a closure
\* always finds the single slot of its channel free.
C37_LateSnapshotIsDiscarded ==
    /\ [][C37_Step]_vars
    /\ [](QueuedSendHasRoom /\ ReceiversWaitOnOwnRequest)

\* The closure of the first tick ran after the tick had timed out, while the
\* second tick was waiting; the second tick then processed its own snapshot,
\* and a query made meanwhile was answered with its own.
C37_Witness ==
    /\ Len(snapshot_channels) = 3
    /\ snapshot_channels[1].by = "watcher"
    /\ RanLate(1)
    /\ snapshot_channels[2].by = "watcher"
    /\ snapshot_channels[3].by = "query"
    /\ Len(polls) = 1
    /\ polls[1].tick = 2
    /\ Some(polls[1].snapshot) = snapshot_channels[2].slot
    /\ query_outcome = "answered"
    /\ query_result = snapshot_channels[3].slot
    /\ query_result # snapshot_channels[2].slot

-----------------------------------------------------------------------------
(* The shortcut state machine *)

\* The recording-start and recording-stop events emitted, in order
RecordingEvents ==
    SelectSeq(shortcut_emitted, LAMBDA call : call \in {"emit(recording-start)", "emit(recording-stop)"})

IsRecording == shortcut_state \in {"RecordingViaToggle", "RecordingViaHold"}

\* A call is among the calls of the last event handled
LastShortcutCalled(call) ==
    \E i \in 1..Len(Unwrap(last_shortcut).calls) : Unwrap(last_shortcut).calls[i] = call

\* The last event handled was one of the events, met in the state
LastShortcutWas(state_before, events) ==
    /\ IsSome(last_shortcut)
    /\ Unwrap(last_shortcut).state_before = state_before
    /\ IsSome(Unwrap(last_shortcut).shortcut_event)
    /\ Unwrap(Unwrap(last_shortcut).shortcut_event) \in events

\* C39: from Idle, whatever press and release events arrive, recording-start
\* and recording-stop are emitted alternately, starting with recording-start;
\* the state is RecordingViaToggle or RecordingViaHold exactly after a start
\* that no stop has followed; a hold event leaves a toggle recording as it is
\* and a toggle event leaves a hold recording as it is; and the last
\* transcription is pasted on PasteReleased in WaitingForPasteKeyRelease only.
C39_ShortcutStateMachine ==
    /\ shortcut_state \in ShortcutStates
    /\ \A i \in 1..Len(RecordingEvents) :
           RecordingEvents[i] = IF i % 2 = 1 THEN "emit(recording-start)"
                                ELSE "emit(recording-stop)"
    /\ IsRecording <=> Len(RecordingEvents) % 2 = 1
    /\ LastShortcutWas("RecordingViaToggle", {"HoldPressed", "HoldReleased"})
       => /\ shortcut_state = "RecordingViaToggle"
          /\ Unwrap(last_shortcut).calls = <<>>
    /\ LastShortcutWas("RecordingViaHold", {"TogglePressed", "ToggleReleased"})
       => /\ shortcut_state = "RecordingViaHold"
          /\ Unwrap(last_shortcut).calls = <<>>
    /\ IsSome(last_shortcut)
       => (LastShortcutCalled("paste_last_transcription")
           <=> LastShortcutWas("WaitingForPasteKeyRelease", {"PasteReleased"}))

\* A toggle recording was started and stopped, a hold recording was started,
\* and a release of the toggle key then left it running.
C39_Witness ==
    /\ RecordingEvents = <<"emit(recording-start)", "emit(recording-stop)", "emit(recording-start)">>
    /\ LastShortcutWas("RecordingViaHold", {"ToggleReleased"})
    /\ shortcut_state = "RecordingViaHold"

====
